---- MODULE Spec2Model ----
(***************************************************************************)
(* The in-memory pipeline of the repository: the Record Source hands raw   *)
(* customer rows and raw order line items to DataCleaner, whose clean      *)
(* relations are joined by merge_customer_orders and aggregated by         *)
(* KPICalculator.                                                          *)
(*                                                                         *)
(* A DataFrame is a sequence of rows.  A row is a record; rows of the      *)
(* order relation carry the DataFrame index label in the field idx, which  *)
(* boolean-mask filtering preserves.  A missing cell (None / NaN / NaT) is *)
(* the token NaN.  A float cell is a record [cls, t]: cls is "fin", "nan"  *)
(* or "inf" and t is the value in tenths (fixed point), so that 0.5 is     *)
(* representable and astype(int) truncates.                                *)
(***************************************************************************)
EXTENDS Integers, Sequences, FiniteSets, TLC

VARIABLES
    pc,               \* position of the pipeline run of main()
    customers_csv,    \* rows of the customer CSV file (Record Source)
    orders_xml,       \* <order> entries of the orders XML file (Record Source)
    raw_customers,    \* customers DataFrame returned by load_customers_csv
    raw_orders,       \* orders DataFrame returned by load_orders_xml
    customers_clean,  \* return value of clean_customers
    orders_clean,     \* first return value of clean_orders
    orders_invalid,   \* second return value of clean_orders
    cleaning_stats,   \* DataCleaner.cleaning_stats
    merged,           \* return value of merge_customer_orders
    log,              \* warnings emitted by the run (message kind, count)
    kpis,             \* KPICalculator.kpis
    again,            \* results of the cleaner applied to its own output
    outputs,          \* artifacts in the outputs directory of main.py
    save_faults,      \* the artifacts of main.py whose write fails
    store,            \* committed rows of the customers and orders tables
    txn,              \* the tables as the open transaction of
                      \* DatabaseLoader.session sees them
    utcnow,           \* the clock read by datetime.utcnow()
    db_calls,         \* the DatabaseLoader calls made so far, with outcome
    db_save,          \* outcome of save_kpi_results of main_db.py
    db_outputs,       \* artifacts in the outputs directory of main_db.py
    db_log,           \* warnings logged by main_db.py
    db_save_faults,   \* the artifacts of main_db.py whose write fails
    env,              \* os.environ after load_dotenv: the five DB_ variables
    cfg_pc,           \* position of the caller of db_config.py
    cfg_log,          \* messages logged by db_config.py
    cfg_exc,          \* message of the exception db_config.py raised
    db_pc,            \* position of main() of main_db.py
    table_info,       \* table_info of main() of main_db.py
    report,           \* the figures of the summary report written
    session           \* the session of load_data_to_database's DatabaseLoader

pipeline_vars == <<pc, customers_csv, orders_xml, raw_customers, raw_orders,
                   customers_clean, orders_clean, orders_invalid,
                   cleaning_stats, merged, log, kpis>>
db_vars == <<store, txn, utcnow, db_calls>>
db_save_vars == <<db_save, db_outputs, db_log, db_save_faults>>
save_vars == <<outputs, save_faults>>

cfg_vars == <<env, cfg_pc, cfg_log, cfg_exc>>
main_db_vars == <<db_pc, table_info, report, session>>

\* what the steps of the in-memory pipeline leave alone
aside_vars == <<again, save_vars, db_vars, db_save_vars, cfg_vars, main_db_vars>>

vars == <<pipeline_vars, again, save_vars, db_vars, db_save_vars, cfg_vars,
          main_db_vars>>

-----------------------------------------------------------------------------
(* Bounds of the input families.                                           *)

MaxCustomers == 2
MaxDirtyOrders == 2
MaxOrders == 3
MaxDatedOrders == 2
MaxSaveOrders == 2
MaxDbCalls == 3
MaxXmlEntries == 2
MaxPasswordLen == 2
MaxMainDbOrders == 2

-----------------------------------------------------------------------------
(* Cell values.                                                            *)

NaN == "NaN"

isna(v) == v = NaN

Fin(t) == [cls |-> "fin", t |-> t]
FNaN == [cls |-> "nan", t |-> 0]
FInf == [cls |-> "inf", t |-> 0]

fisna(f) == f.cls = "nan"

\* f <= 0 and f < 0 on floats; a comparison with NaN is False.
fle0(f) == (f.cls = "fin") /\ (f.t <= 0)
flt0(f) == (f.cls = "fin") /\ (f.t < 0)

\* pd.to_numeric(column, errors='coerce') on one cell of an object column:
\* a decimal literal parses to its value, "inf" to infinity, None and
\* anything unparseable to NaN.
to_numeric(s) ==
    CASE s = "-100" -> Fin(-1000)
      [] s = "-2"   -> Fin(-20)
      [] s = "0"    -> Fin(0)
      [] s = "0.5"  -> Fin(5)
      [] s = "1"    -> Fin(10)
      [] s = "2"    -> Fin(20)
      [] s = "300"  -> Fin(3000)
      [] s = "500"  -> Fin(5000)
      [] s = "inf"  -> FInf
      [] OTHER      -> FNaN

\* numpy float -> int cast of a finite value: truncation toward zero.
trunc_int(t) == IF t >= 0 THEN t \div 10 ELSE -((-t) \div 10)

\* str.strip() on the strings of the input families.
str_strip(s) ==
    CASE s = " m1 "    -> "m1"
      [] s = " m2 "    -> "m2"
      [] s = " north " -> "north"
      [] OTHER         -> s

\* str.title() on the strings of the input families.
str_title(s) ==
    CASE s = "north" -> "North"
      [] s = "south" -> "South"
      [] OTHER       -> s

\* pd.to_datetime(column, errors='coerce') on one cell: a timestamp in
\* the file's format parses, anything else and None become NaT.
GoodDates == {"2024-01-05 10:30:00", "2024-02-10 09:00:00"}
to_datetime(s) == IF s \in GoodDates THEN s ELSE NaN

\* the .dt components of lines 141-146 of one parsed cell (numbers as
\* decimal strings); every component of NaT is null
dt_parts(d) ==
    CASE d = "2024-01-05 10:30:00" ->
            [order_date |-> "2024-01-05", order_year |-> "2024",
             order_month |-> "1", order_day |-> "5", order_hour |-> "10",
             order_weekday |-> "Friday"]
      [] d = "2024-02-10 09:00:00" ->
            [order_date |-> "2024-02-10", order_year |-> "2024",
             order_month |-> "2", order_day |-> "10", order_hour |-> "9",
             order_weekday |-> "Saturday"]
      [] OTHER ->
            [order_date |-> NaN, order_year |-> NaN, order_month |-> NaN,
             order_day |-> NaN, order_hour |-> NaN, order_weekday |-> NaN]

-----------------------------------------------------------------------------
(* Sequence helpers (boolean-mask selection, sums).                        *)

RECURSIVE SelectIdx(_, _, _)
\* the subsequence of df at the positions i >= from with keep[i]
SelectIdx(df, keep, from) ==
    IF from > Len(df) THEN <<>>
    ELSE IF keep[from] THEN <<df[from]>> \o SelectIdx(df, keep, from + 1)
    ELSE SelectIdx(df, keep, from + 1)

Mask(df, keep) == SelectIdx(df, keep, 1)

CountTrue(m) == Cardinality({i \in DOMAIN m : m[i]})

RECURSIVE SumSeq(_)
SumSeq(s) == IF s = <<>> THEN 0 ELSE Head(s) + SumSeq(Tail(s))

RECURSIVE SumSet(_, _)
\* the sum of f[x] over the finite set S
SumSet(S, f) ==
    IF S = {} THEN 0
    ELSE LET x == CHOOSE y \in S : TRUE IN f[x] + SumSet(S \ {x}, f)

SeqsUpTo(S, n) == UNION {[1..k -> S] : k \in 0..n}

-----------------------------------------------------------------------------
(* Input families: what the Record Source may hold.                        *)

\* An environment variable is unset, or set to a text.  A text is a
\* sequence of pieces; a message is a sequence of pieces too, so that a
\* text occurs in a message where its pieces do.
Unset == [set |-> FALSE, text |-> <<>>]
EnvValue(t) == [set |-> TRUE, text |-> t]

CustomerRow(c, n, m, r) ==
    [customer_id |-> c, customer_name |-> n, mobile_number |-> m, region |-> r]

OrderRow(o, m, d, s, q, a) ==
    [order_id |-> o, mobile_number |-> m, order_date_time |-> d,
     sku_id |-> s, sku_count |-> q, total_amount |-> a]

\* customer rows with missing keys, repeated keys, padded and missing text
DirtyCustomerRows ==
    {CustomerRow(c, nr[1], m, nr[2]) :
        c \in {NaN, "C1", "C2"},
        m \in {NaN, "m1", " m1 "},
        nr \in {<<"Ann", "North">>, <<NaN, NaN>>, <<"Ann", " north ">>}}

OneOrder == <<OrderRow("O1", " m1 ", "2024-01-05 10:30:00", "S1", "2", "500")>>

\* order line items with every kind of sku_count and total_amount, and
\* line items lacking one of the key fields
DirtyOrderRows ==
    {OrderRow("O1", " m1 ", "2024-01-05 10:30:00", "S1", q, a) :
        q \in {NaN, "abc", "-2", "0", "0.5", "2", "inf"},
        a \in {"abc", "-100", "300", "500"}}
    \cup
    {OrderRow(k[1], k[2], "2024-01-05 10:30:00", k[3], q, "500") :
        k \in {<<NaN, "m1", "S1">>, <<"O1", NaN, "S1">>, <<"O1", "m1", NaN>>},
        q \in {"-2", "2"}}

OneCustomer == <<CustomerRow("C1", "Ann", "m1", "North")>>

\* valid line items of two orders (O1 of total 500, O2 of total 300), two
\* mobiles and two SKUs
KpiOrderRows ==
    {OrderRow(o, m, "2024-01-05 10:30:00", s,
              IF s = "S1" THEN "1" ELSE "2", IF o = "O1" THEN "500" ELSE "300") :
        o \in {"O1", "O2"}, m \in {"m1", "m2"}, s \in {"S1", "S2"}}

\* no customer; one; two with distinct mobiles; two sharing a mobile
KpiCustomerTables ==
    { <<>>,
      <<CustomerRow("C1", "Ann", "m1", "North")>>,
      <<CustomerRow("C1", "Ann", "m1", "North"),
        CustomerRow("C2", "Bob", "m2", "south")>>,
      <<CustomerRow("C1", "Ann", "m1", "North"),
        CustomerRow("C2", "Bob", "m1", "south")>> }

Inputs ==
    {<<c, OneOrder>> : c \in SeqsUpTo(DirtyCustomerRows, MaxCustomers)}
    \cup {<<OneCustomer, o>> : o \in SeqsUpTo(DirtyOrderRows, MaxDirtyOrders)}
    \cup (KpiCustomerTables \X SeqsUpTo(KpiOrderRows, MaxOrders))

\* line items of two orders with parseable, unparseable and missing
\* timestamps, valid (sku_count 2) or not (sku_count 0)
DatedOrderRows ==
    {OrderRow(o, "m1", d, "S1", q, "500") :
        o \in {"O1", "O2"},
        d \in GoodDates \cup {"not-a-date", NaN},
        q \in {"2", "0"}}

\* a child element that an <order> entry does not have
Absent == "<absent>"

\* <order> entries with all six children or lacking some, and with a child
\* of empty text
XmlEntries ==
    {OrderRow(o, m, "2024-01-05 10:30:00", "S1", q, "500") :
        o \in {"O1", "O2"}, m \in {"m1", Absent}, q \in {"2", NaN, Absent}}

XmlInputs == {<<OneCustomer, o>> : o \in SeqsUpTo(XmlEntries, MaxXmlEntries)}

DatedInputs ==
    {<<OneCustomer, o>> : o \in SeqsUpTo(DatedOrderRows, MaxDatedOrders)}

EmptyDict == <<>>

\* the state before main() reads its input files, and of a DatabaseLoader
\* on freshly created tables
InitRun ==
    /\ pc = "start"
    /\ raw_customers = <<>>
    /\ raw_orders = <<>>
    /\ customers_clean = <<>>
    /\ orders_clean = <<>>
    /\ orders_invalid = <<>>
    /\ cleaning_stats = [customers |-> EmptyDict, orders |-> EmptyDict]
    /\ merged = <<>>
    /\ log = <<>>
    /\ kpis = EmptyDict
    /\ again = [done |-> {}, customers_clean |-> <<>>, orders_clean |-> <<>>,
                orders_invalid |-> <<>>]
    /\ outputs = {}
    /\ save_faults = {}
    /\ store = [customers |-> <<>>, orders |-> <<>>]
    /\ txn = [customers |-> <<>>, orders |-> <<>>]
    /\ utcnow = 1
    /\ db_calls = <<>>
    /\ db_save = "idle"
    /\ db_outputs = {}
    /\ db_log = <<>>
    /\ db_save_faults = {}
    /\ db_pc = "start"
    /\ table_info = EmptyDict
    /\ report = EmptyDict
    /\ session = "none"

\* a .env file with every variable set to a usable value
GoodEnv ==
    [DB_HOST |-> EnvValue(<<"localhost">>), DB_PORT |-> EnvValue(<<"3306">>),
     DB_USER |-> EnvValue(<<"root">>), DB_PASSWORD |-> EnvValue(<<"s3cret">>),
     DB_NAME |-> EnvValue(<<"shop">>)]

\* db_config.py is not imported
NotImported ==
    /\ cfg_pc = "start"
    /\ cfg_log = <<>>
    /\ cfg_exc = <<>>

\* the path of the .env file (db_config.py lines 20-21)
DotenvPath == "<project_root>/.env"

\* the message of line 31
ImportMessage == <<"Loaded environment variables from: ", DotenvPath>>

\* the message of the FileNotFoundError of lines 24-28
DotenvMissing ==
    <<"SECURITY ERROR: .env file not found at ", DotenvPath,
      ". Cannot proceed without secure credentials. Please create .env file with database credentials.">>

\* db_config.py imported (lines 14-31): the .env file is there, its
\* variables are loaded and line 31 logs its path
Imported ==
    /\ cfg_pc = "start"
    /\ cfg_log = <<ImportMessage>>
    /\ cfg_exc = <<>>

\* the import of db_config.py without a .env file: lines 23-28 raise
ImportFailed ==
    /\ cfg_pc = "import_failed"
    /\ cfg_log = <<>>
    /\ cfg_exc = DotenvMissing

Init ==
    /\ env = GoodEnv
    /\ NotImported
    /\ \E in \in Inputs : customers_csv = in[1] /\ orders_xml = in[2]
    /\ InitRun

-----------------------------------------------------------------------------
(* db_config.py: DatabaseConfig and get_database_engine                    *)

\* str.upper() of a piece
upper(c) ==
    CASE c = "your_"   -> "YOUR_"
      [] c = "Replace" -> "REPLACE"
      [] c = "s3cret"  -> "S3CRET"
      [] c = "root"    -> "ROOT"
      [] c = "shop"    -> "SHOP"
      [] c = "localhost" -> "LOCALHOST"
      [] OTHER         -> c

RECURSIVE lstrip(_)
lstrip(t) == IF t # <<>> /\ Head(t) = " " THEN lstrip(Tail(t)) ELSE t

RECURSIVE rstrip(_)
rstrip(t) ==
    IF t # <<>> /\ t[Len(t)] = " " THEN rstrip(SubSeq(t, 1, Len(t) - 1)) ELSE t

\* str.strip() of a text
strip(t) == lstrip(rstrip(t))

\* 'YOUR_' in value.upper() or 'REPLACE' in value.upper()
is_placeholder(t) ==
    \E i \in DOMAIN t : upper(t[i]) = "YOUR_" \/ upper(t[i]) = "REPLACE"

\* the passwords tried: every text of up to MaxPasswordLen pieces
PasswordPieces == {" ", "s3cret", "your_", "Replace"}
Passwords ==
    {Unset} \cup {EnvValue(t) : t \in SeqsUpTo(PasswordPieces, MaxPasswordLen)}

Environments ==
    [DB_HOST : {Unset, EnvValue(<<"localhost">>), EnvValue(<<"YOUR_", "HOST">>)},
     DB_PORT : {EnvValue(<<"3306">>), EnvValue(<<" ">>)},
     DB_USER : {EnvValue(<<"root">>), EnvValue(<<"root", " ">>)},
     DB_PASSWORD : Passwords,
     DB_NAME : {EnvValue(<<"shop">>), EnvValue(<<"REPLACE", "ME">>)}]

\* _get_required_env: the stripped value, or the ValueError of lines 76-80
\* (unset or blank) or of lines 84-87 (placeholder), whose message quotes
\* the value
get_required_env(e, key) ==
    LET value == e[key]
    IN  IF ~value.set \/ strip(value.text) = <<>>
        THEN [raised |-> TRUE, value |-> <<>>,
              exc |-> <<"SECURITY ERROR: Required environment variable '", key,
                        "' is not set. Please add it to the .env file. NO DEFAULTS ALLOWED for security compliance.">>]
        ELSE IF is_placeholder(value.text)
        THEN [raised |-> TRUE, value |-> <<>>,
              exc |-> <<"SECURITY ERROR: Environment variable '", key,
                        "' contains placeholder value: ">> \o value.text
                      \o <<". Please replace with actual credentials in .env file.">>]
        ELSE [raised |-> FALSE, value |-> strip(value.text), exc |-> <<>>]

ConfigKeys == <<"DB_HOST", "DB_PORT", "DB_USER", "DB_PASSWORD", "DB_NAME">>

\* DatabaseConfig.__init__: the five variables are read in the order of
\* lines 46-50, the first error ends it; then lines 53-56 log database,
\* host, port and user
DatabaseConfig(e) ==
    LET got == [i \in DOMAIN ConfigKeys |-> get_required_env(e, ConfigKeys[i])]
        bad == {i \in DOMAIN ConfigKeys : got[i].raised}
    IN  IF bad # {}
        THEN [raised |-> TRUE, log |-> <<>>,
              exc |-> got[CHOOSE i \in bad : \A j \in bad : i <= j].exc]
        ELSE [raised |-> FALSE, exc |-> <<>>,
              log |-> << <<"Database configuration loaded successfully">>,
                         <<"Database: ">> \o got[5].value,
                         <<"Host: ">> \o got[1].value \o <<":">> \o got[2].value,
                         <<"User: ">> \o got[3].value >>]

\* the message of the error of engine.connect() (line 144): the server
\* names the user and tells whether a password was used
connect_error(e) ==
    <<"(pymysql.err.OperationalError) (1045, Access denied for user '">>
    \o strip(e["DB_USER"].text) \o <<"' (using password: YES))">>

\* get_database_engine: configuration, engine, connection test; every
\* exception is logged with its message and re-raised (lines 149-151)
get_database_engine(e, connects) ==
    LET config == DatabaseConfig(e)
        failed(m) == <<"Failed to create database engine: ">> \o m
    IN  IF config.raised
        THEN [raised |-> TRUE, exc |-> config.exc,
              log |-> config.log \o <<failed(config.exc)>>]
        ELSE IF ~connects
        THEN [raised |-> TRUE, exc |-> connect_error(e),
              log |-> config.log
                      \o << <<"SQLAlchemy engine created successfully">>,
                            failed(connect_error(e)) >>]
        ELSE [raised |-> FALSE, exc |-> <<>>,
              log |-> config.log
                      \o << <<"SQLAlchemy engine created successfully">>,
                            <<"Database connection test successful">> >>]

\* config = DatabaseConfig() of the module's own test (line 163)
NewDatabaseConfig ==
    /\ cfg_pc = "start"
    /\ LET r == DatabaseConfig(env)
       IN  /\ cfg_log' = cfg_log \o r.log
           /\ cfg_exc' = r.exc
           /\ cfg_pc' = IF r.raised THEN "config_failed" ELSE "configured"
    /\ UNCHANGED <<env, pipeline_vars, again, save_vars, db_vars, db_save_vars,
                   main_db_vars>>

GetDatabaseEngine ==
    /\ cfg_pc \in {"start", "configured"}
    /\ \E connects \in BOOLEAN :
          LET r == get_database_engine(env, connects)
          IN  /\ cfg_log' = cfg_log \o r.log
              /\ cfg_exc' = r.exc
              /\ cfg_pc' = IF r.raised THEN "engine_failed" ELSE "engine"
    /\ UNCHANGED <<env, pipeline_vars, again, save_vars, db_vars, db_save_vars,
                   main_db_vars>>

\* the module after its import, for every content of the .env file, or
\* the failed import when there is no .env file
InitConfig ==
    /\ customers_csv = OneCustomer
    /\ orders_xml = OneOrder
    /\ InitRun
    /\ env \in Environments
    /\ Imported \/ ImportFailed

NextConfig ==
    \/ NewDatabaseConfig
    \/ GetDatabaseEngine

SpecConfig == InitConfig /\ [][NextConfig]_vars

-----------------------------------------------------------------------------
(* DataLoader.load_all_data                                                *)

\* pd.DataFrame(orders_data): the rows get the RangeIndex 0 .. n-1
DataFrame(rows) == [i \in DOMAIN rows |-> [idx |-> i - 1] @@ rows[i]]

\* order.find(child) of an entry that lacks the child is None, and .text
\* of None raises AttributeError (lines 76-83)
malformed(entry) ==
    \E f \in {"order_id", "mobile_number", "order_date_time", "sku_id",
              "sku_count", "total_amount"} : entry[f] = Absent

SkipWarning == [msg |-> "Skipping malformed order", n |-> 1]

\* load_orders_xml: the entries with all children, one warning per entry
\* skipped.  With no entry kept the DataFrame has no columns and
\* df['order_id'] (line 96) raises KeyError, which the handler of lines
\* 107-109 logs and re-raises.
load_orders_xml(entries) ==
    LET orders_data == SelectSeq(entries, LAMBDA e : ~malformed(e))
    IN  [df |-> DataFrame(orders_data),
         log |-> [i \in 1..(Len(entries) - Len(orders_data)) |-> SkipWarning],
         raised |-> IF Len(orders_data) = 0 THEN "KeyError" ELSE "none"]

\* load_customers_csv, then load_orders_xml
LoadAllData ==
    /\ pc = "start"
    /\ raw_customers' = customers_csv
    /\ LET r == load_orders_xml(orders_xml)
       IN  /\ log' = log \o r.log
           /\ IF r.raised # "none"
              THEN /\ pc' = "failed_load"
                   /\ UNCHANGED raw_orders
              ELSE /\ pc' = "loaded"
                   /\ raw_orders' = r.df
    /\ UNCHANGED <<customers_csv, orders_xml, customers_clean, orders_clean,
                   orders_invalid, cleaning_stats, merged, kpis>>
    /\ UNCHANGED aside_vars

-----------------------------------------------------------------------------
(* DataCleaner.clean_customers                                             *)

\* df.duplicated(subset=['customer_id'], keep='first'); NaN keys are equal
duplicated_customer_id(df) ==
    [i \in DOMAIN df |->
        \E j \in 1..(i - 1) : df[j].customer_id = df[i].customer_id]

Not(m) == [i \in DOMAIN m |-> ~m[i]]

\* mutant: dropna on customer_id alone
dropna_customers_id_only(df) ==
    Mask(df, [i \in DOMAIN df |-> ~isna(df[i].customer_id)])

\* df.dropna(subset=['customer_id', 'mobile_number'])
dropna_customers(df) ==
    Mask(df, [i \in DOMAIN df |->
                 ~isna(df[i].customer_id) /\ ~isna(df[i].mobile_number)])

fillna(v, d) == IF isna(v) THEN d ELSE v

\* astype(str) of a non-null cell that is a str already
astype_str(v) == v

\* the fills and normalizations of lines 47-57 on one row
normalize_customer(r) ==
    [r EXCEPT !.customer_name = fillna(r.customer_name, "Unknown"),
              !.region = str_title(str_strip(fillna(r.region, "Unknown"))),
              !.mobile_number = str_strip(astype_str(r.mobile_number))]

clean_customers_df(df) ==
    LET kept == dropna_customers(Mask(df, Not(duplicated_customer_id(df))))
    IN  [i \in DOMAIN kept |-> normalize_customer(kept[i])]

\* line 57: .str on the region column raises AttributeError when the
\* column is float64, which it is when read_csv found no value in it
\* (dtype float64) and no row is left for fillna('Unknown') to fill
clean_customers_raises(df) ==
    /\ Len(df) > 0
    /\ \A i \in DOMAIN df : isna(df[i].region)
    /\ Len(dropna_customers(Mask(df, Not(duplicated_customer_id(df))))) = 0

clean_customers_stats(df) ==
    LET out == clean_customers_df(df)
    IN  [original_count |-> Len(df),
         final_count |-> Len(out),
         duplicates_removed |-> CountTrue(duplicated_customer_id(df)),
         rows_dropped |-> Len(df) - Len(out)]

CleanCustomers ==
    /\ pc = "loaded"
    /\ IF clean_customers_raises(raw_customers)
       THEN /\ pc' = "failed_clean_customers"
            /\ UNCHANGED <<customers_clean, cleaning_stats>>
       ELSE /\ pc' = "customers_cleaned"
            /\ customers_clean' = clean_customers_df(raw_customers)
            /\ cleaning_stats' =
                 [cleaning_stats EXCEPT
                     !.customers = clean_customers_stats(raw_customers)]
    /\ UNCHANGED <<customers_csv, orders_xml, raw_customers, raw_orders,
                   orders_clean, orders_invalid, merged, log, kpis>>
    /\ UNCHANGED aside_vars

-----------------------------------------------------------------------------
(* DataCleaner.clean_orders                                                *)

\* step 1 (lines 92, 95): both numeric columns coerced
coerce_orders(df) ==
    [i \in DOMAIN df |->
        [df[i] EXCEPT !.sku_count = to_numeric(df[i].sku_count),
                      !.total_amount = to_numeric(df[i].total_amount)]]

\* step 2: the four predicates, on a coerced row
invalid_sku_count(r) == fisna(r.sku_count)
\* mutant: sku_count < 0, so that zero passes
invalid_negative_count_strict(r) == flt0(r.sku_count) /\ ~fisna(r.sku_count)
invalid_negative_count(r) == fle0(r.sku_count) /\ ~fisna(r.sku_count)
invalid_negative_amount(r) == flt0(r.total_amount) /\ ~fisna(r.total_amount)
invalid_missing(r) ==
    isna(r.order_id) \/ isna(r.mobile_number) \/ isna(r.sku_id)

invalid_mask(r) ==
    \/ invalid_sku_count(r)
    \/ invalid_negative_count(r)
    \/ invalid_negative_amount(r)
    \/ invalid_missing(r)

\* the boolean Series of the four predicates and of their union, over a
\* coerced frame
mask_sku_count(c) == [i \in DOMAIN c |-> invalid_sku_count(c[i])]
mask_negative_count(c) == [i \in DOMAIN c |-> invalid_negative_count(c[i])]
mask_negative_amount(c) == [i \in DOMAIN c |-> invalid_negative_amount(c[i])]
mask_missing(c) == [i \in DOMAIN c |-> invalid_missing(c[i])]
mask_invalid(c) == [i \in DOMAIN c |-> invalid_mask(c[i])]

\* the logger.warning calls of lines 100-120 over the coerced frame c, in
\* order, each made when its mask has a True
warnings_of(c) ==
    LET w(kind, m) ==
            IF CountTrue(m) > 0 THEN <<[msg |-> kind, n |-> CountTrue(m)]>>
            ELSE <<>>
    IN  w("missing/invalid sku_count", mask_sku_count(c))
        \o w("negative/zero sku_count", mask_negative_count(c))
        \o w("negative total_amount", mask_negative_amount(c))
        \o w("missing critical fields", mask_missing(c))

order_warnings(df) == warnings_of(coerce_orders(df))

\* mutant: the concatenation of the invalid_records list, one frame per
\* predicate
clean_orders_invalid_concat(df) ==
    LET c == coerce_orders(df)
    IN  Mask(c, mask_sku_count(c))
        \o Mask(c, mask_negative_count(c))
        \o Mask(c, mask_negative_amount(c))
        \o Mask(c, mask_missing(c))

\* df_invalid (line 126): the coerced rows the mask selects
invalid_of(c) == Mask(c, mask_invalid(c))

clean_orders_invalid(df) == invalid_of(coerce_orders(df))

\* df_clean after line 127, the date parsing of lines 130-133 and the
\* date component columns of lines 141-146
kept_of(c) ==
    LET k == Mask(c, Not(mask_invalid(c)))
    IN  [i \in DOMAIN k |->
            dt_parts(to_datetime(k[i].order_date_time))
            @@ [k[i] EXCEPT !.order_date_time = to_datetime(k[i].order_date_time)]]

clean_orders_kept(df) == kept_of(coerce_orders(df))

invalid_dates_of(c) ==
    [i \in DOMAIN kept_of(c) |-> isna(kept_of(c)[i].order_date_time)]

invalid_dates(df) == invalid_dates_of(coerce_orders(df))

\* line 149: astype(int) raises when a kept sku_count is not finite
astype_int_raises_of(c) ==
    \E i \in DOMAIN kept_of(c) : kept_of(c)[i].sku_count.cls # "fin"

astype_int_raises(df) == astype_int_raises_of(coerce_orders(df))

\* lines 149-150 on one kept row
normalize_order(r) ==
    [r EXCEPT !.sku_count = trunc_int(r.sku_count.t),
              !.mobile_number = str_strip(astype_str(r.mobile_number))]

\* df_clean as returned
clean_of(c) == [i \in DOMAIN kept_of(c) |-> normalize_order(kept_of(c)[i])]

clean_orders_clean(df) == clean_of(coerce_orders(df))

\* the stats record of lines 153-161
stats_of(c) ==
    [original_count |-> Len(c),
     valid_count |-> Len(kept_of(c)),
     invalid_count |-> Len(invalid_of(c)),
     rows_with_missing_sku_count |-> CountTrue(mask_sku_count(c)),
     rows_with_negative_count |-> CountTrue(mask_negative_count(c)),
     rows_with_negative_amount |-> CountTrue(mask_negative_amount(c)),
     rows_with_invalid_dates |-> CountTrue(invalid_dates_of(c))]

clean_orders_stats(df) == stats_of(coerce_orders(df))

date_warnings_of(c) ==
    IF CountTrue(invalid_dates_of(c)) > 0
    THEN <<[msg |-> "invalid dates", n |-> CountTrue(invalid_dates_of(c))]>>
    ELSE <<>>

date_warnings(df) == date_warnings_of(coerce_orders(df))

\* main.py lines 301-302: the warning of main() when clean_orders returned
\* invalid line items
invalid_orders_warning(invalid) ==
    IF Len(invalid) > 0
    THEN <<[msg |-> "invalid order records", n |-> Len(invalid)]>>
    ELSE <<>>

CleanOrders ==
    /\ pc = "customers_cleaned"
    /\ IF astype_int_raises(raw_orders)
       THEN /\ pc' = "failed_clean_orders"
            /\ log' = log \o order_warnings(raw_orders) \o date_warnings(raw_orders)
            /\ UNCHANGED <<orders_clean, orders_invalid, cleaning_stats>>
       ELSE /\ pc' = "orders_cleaned"
            /\ log' = log \o order_warnings(raw_orders) \o date_warnings(raw_orders)
                         \o invalid_orders_warning(clean_orders_invalid(raw_orders))
            /\ orders_clean' = clean_orders_clean(raw_orders)
            /\ orders_invalid' = clean_orders_invalid(raw_orders)
            /\ cleaning_stats' =
                 [cleaning_stats EXCEPT !.orders = clean_orders_stats(raw_orders)]
    /\ UNCHANGED <<customers_csv, orders_xml, raw_customers, raw_orders,
                   customers_clean, merged, kpis>>
    /\ UNCHANGED aside_vars

\* get_cleaning_summary: the stats dict of the cleaner
get_cleaning_summary == cleaning_stats

-----------------------------------------------------------------------------
(* DataCleaner.merge_customer_orders                                       *)

MergedRow(o, c) ==
    [order_id |-> o.order_id, mobile_number |-> o.mobile_number,
     order_date_time |-> o.order_date_time, sku_id |-> o.sku_id,
     sku_count |-> o.sku_count, total_amount |-> o.total_amount,
     order_date |-> o.order_date, order_year |-> o.order_year,
     order_month |-> o.order_month, order_day |-> o.order_day,
     order_hour |-> o.order_hour, order_weekday |-> o.order_weekday,
     customer_id |-> c.customer_id, customer_name |-> c.customer_name,
     region |-> c.region]

NoCustomer == CustomerRow(NaN, NaN, NaN, NaN)

\* mutant: an inner join, which drops a line item without customer
inner_join_row(o, customers_df) ==
    LET hits == Mask(customers_df,
                     [j \in DOMAIN customers_df |->
                         customers_df[j].mobile_number = o.mobile_number])
    IN  [j \in DOMAIN hits |-> MergedRow(o, hits[j])]

\* the rows one order line item contributes to a left join: one per
\* customer with its mobile_number, in customer order, or one with null
\* customer fields
left_join_row(o, customers_df) ==
    LET hits == Mask(customers_df,
                     [j \in DOMAIN customers_df |->
                         customers_df[j].mobile_number = o.mobile_number])
    IN  IF hits = <<>> THEN <<MergedRow(o, NoCustomer)>>
        ELSE [j \in DOMAIN hits |-> MergedRow(o, hits[j])]

RECURSIVE left_join(_, _)
\* orders_df.merge(customers_df, on='mobile_number', how='left')
left_join(orders_df, customers_df) ==
    IF orders_df = <<>> THEN <<>>
    ELSE left_join_row(Head(orders_df), customers_df)
         \o left_join(Tail(orders_df), customers_df)

merge_customer_orders(customers_df, orders_df) ==
    left_join(orders_df, customers_df)

\* merged_df['customer_id'].isna().sum()
unmatched(merged_df) ==
    CountTrue([i \in DOMAIN merged_df |-> isna(merged_df[i].customer_id)])

merge_warnings(merged_df) ==
    IF unmatched(merged_df) > 0
    THEN <<[msg |-> "orders without matching customers",
            n |-> unmatched(merged_df)]>>
    ELSE <<>>

MergeCustomerOrders ==
    /\ pc = "orders_cleaned"
    /\ pc' = "merged"
    /\ merged' = merge_customer_orders(customers_clean, orders_clean)
    /\ log' = log \o merge_warnings(merge_customer_orders(customers_clean, orders_clean))
    /\ UNCHANGED <<customers_csv, orders_xml, raw_customers, raw_orders,
                   customers_clean, orders_clean, orders_invalid,
                   cleaning_stats, kpis>>
    /\ UNCHANGED aside_vars

-----------------------------------------------------------------------------
(* KPICalculator.  Amounts and the figures derived from them are in tenths *)
(* (the fixed point of the float cells).  A mean or quotient is the exact  *)
(* fraction num/den, or NaN for 0/0.                                       *)

Quot(n, d) ==
    IF d = 0 THEN [cls |-> "nan", num |-> 0, den |-> 1]
    ELSE [cls |-> "fin", num |-> n, den |-> d]

\* df[df[col] == v]; no row when v is NaN
Rows(df, col, v) == Mask(df, [i \in DOMAIN df |-> df[i][col] = v /\ ~isna(v)])

\* Series.nunique() / the keys of groupby(col): the non-null values
nunique(df, col) == {df[i][col] : i \in DOMAIN df} \ {NaN}

\* groupby('order_id')['total_amount'].first(): per order the first
\* non-null total_amount, NaN when the order has none
first_amount(df, o) ==
    LET I == {i \in DOMAIN df :
                 df[i].order_id = o /\ ~fisna(df[i].total_amount)}
    IN  IF I = {} THEN FNaN
        ELSE df[CHOOSE i \in I : \A j \in I : i <= j].total_amount

\* Series.sum() of floats skips NaN
fval(f) == IF f.cls = "fin" THEN f.t ELSE 0

\* mutant: df['total_amount'].sum(), the line-item sum
order_revenue_sum_naive(df) ==
    SumSeq([i \in DOMAIN df |-> fval(df[i].total_amount)])

\* df.groupby('order_id')['total_amount'].first().sum()
order_revenue_sum(df) ==
    SumSet(nunique(df, "order_id"),
           [o \in nunique(df, "order_id") |-> fval(first_amount(df, o))])

\* order_revenue.mean(): over the orders whose first() is not NaN
order_revenue_mean(df) ==
    Quot(order_revenue_sum(df),
         Cardinality({o \in nunique(df, "order_id") :
                         ~fisna(first_amount(df, o))}))

sum_sku_count(df) == SumSeq([i \in DOMAIN df |-> df[i].sku_count])

\* _calculate_revenue_metrics
calculate_revenue_metrics(df) ==
    [total_revenue |-> order_revenue_sum(df),
     avg_revenue_per_order |-> order_revenue_mean(df),
     total_items_sold |-> sum_sku_count(df),
     avg_revenue_per_item |->
        IF sum_sku_count(df) > 0
        THEN Quot(order_revenue_sum(df), sum_sku_count(df))
        ELSE Quot(0, 1)]

\* the name of the Series the aggregation lambda of line 50 receives:
\* SeriesGroupBy.agg hands it each group's slice of df['total_amount'] and
\* does not pin the group key, so x.name is the column label
x_name == "total_amount"

\* one row of customer_stats (lines 48-57) for the group of customer c;
\* the lambda sums the per-order first total_amount of the rows
\* df[df['customer_id'] == x.name]
customer_stat(df, c) ==
    LET g == Rows(df, "customer_id", c)
        total_orders == Cardinality(nunique(g, "order_id"))
        total_revenue == order_revenue_sum(Rows(df, "customer_id", x_name))
    IN  [customer_id |-> c,
         total_orders |-> total_orders,
         total_revenue |-> total_revenue,
         total_items |-> Cardinality({i \in DOMAIN g : ~isna(g[i].sku_id)}),
         avg_order_value |-> Quot(total_revenue, total_orders)]

\* _calculate_customer_metrics; customer_details is the set of its records
calculate_customer_metrics(df) ==
    LET ids == nunique(df, "customer_id")
        stat == [c \in ids |-> customer_stat(df, c)]
    IN  [total_customers |-> Cardinality(ids),
         avg_orders_per_customer |->
            Quot(SumSet(ids, [c \in ids |-> stat[c].total_orders]), Cardinality(ids)),
         avg_revenue_per_customer |->
            Quot(SumSet(ids, [c \in ids |-> stat[c].total_revenue]), Cardinality(ids)),
         avg_items_per_customer |->
            Quot(SumSet(ids, [c \in ids |-> stat[c].total_items]), Cardinality(ids)),
         customer_details |-> {stat[c] : c \in ids}]

\* one row of order_stats (lines 74-81) for order o
order_stat(df, o) ==
    LET g == Rows(df, "order_id", o)
    IN  [order_id |-> o,
         order_value |-> first_amount(df, o),
         unique_skus |-> Cardinality({i \in DOMAIN g : ~isna(g[i].sku_id)}),
         total_quantity |-> sum_sku_count(g)]

\* _calculate_order_metrics (the count figures)
calculate_order_metrics(df) ==
    LET ids == nunique(df, "order_id")
    IN  [total_orders |-> Cardinality(ids),
         total_order_line_items |-> Len(df),
         avg_items_per_order |->
            Quot(SumSet(ids, [o \in ids |-> order_stat(df, o).unique_skus]),
                 Cardinality(ids)),
         avg_quantity_per_order |->
            Quot(SumSet(ids, [o \in ids |-> order_stat(df, o).total_quantity]),
                 Cardinality(ids)),
         avg_order_value |-> order_revenue_mean(df)]

\* _calculate_product_metrics (the per-SKU table as a set)
calculate_product_metrics(df) ==
    LET ids == nunique(df, "sku_id")
    IN  [total_unique_skus |-> Cardinality(ids),
         sku_performance |->
            {[sku_id |-> k,
              total_quantity_sold |-> sum_sku_count(Rows(df, "sku_id", k)),
              orders_count |->
                 Cardinality(nunique(Rows(df, "sku_id", k), "order_id")),
              line_items |-> Len(Rows(df, "sku_id", k))] : k \in ids}]

\* _calculate_regional_metrics raises KeyError at the merge of line 159
\* when regional_revenue is the empty list: pd.DataFrame([]) has no
\* 'region' column.  The list is empty when df['region'].unique() is.
regional_metrics_raises(df) == Len(df) = 0

\* regional_breakdown: the regions that are keys of groupby('region')
\* (non-null), each with the revenue of its own region_df
calculate_regional_metrics(df) ==
    LET regions == nunique(df, "region")
    IN  [regions_count |-> Cardinality(regions),
         regional_breakdown |->
            {LET g == Rows(df, "region", rg)
                 customers == Cardinality(nunique(g, "customer_id"))
             IN  [region |-> rg,
                  total_orders |-> Cardinality(nunique(g, "order_id")),
                  total_customers |-> customers,
                  total_revenue |-> order_revenue_sum(g),
                  avg_revenue_per_customer |->
                     Quot(order_revenue_sum(g), customers)] : rg \in regions}]

\* chronological rank of a parsed timestamp
date_ord(d) ==
    CASE d = "2024-01-05 10:30:00" -> 1
      [] d = "2024-02-10 09:00:00" -> 2
      [] OTHER -> 0

\* rank of a group key in the sorted order groupby gives its keys: hours
\* by number, weekday names by spelling
key_ord(k) ==
    CASE k = "9" -> 9
      [] k = "10" -> 10
      [] k = "Friday" -> 1
      [] k = "Saturday" -> 2
      [] OTHER -> 0

\* mutant: the groups of a groupby that keeps the null key
orders_by_keepna(df, col) ==
    {[key |-> k,
      order_count |->
         Cardinality({df[i].order_id : i \in {j \in DOMAIN df : df[j][col] = k}}
                     \ {NaN})] :
        k \in {df[i][col] : i \in DOMAIN df}}

\* df.groupby(col)['order_id'].nunique().reset_index() (lines 183, 187):
\* one record per non-null key
orders_by(df, col) ==
    {[key |-> k, order_count |-> Cardinality(nunique(Rows(df, col, k), "order_id"))] :
        k \in nunique(df, col)}

\* lines 177-180: the groups of (order_year, order_month), rows with a
\* null in either key dropped
monthly_orders(df) ==
    {[year |-> ym[1], month |-> ym[2],
      order_count |->
         Cardinality(nunique(Rows(Rows(df, "order_year", ym[1]),
                                  "order_month", ym[2]), "order_id"))] :
        ym \in {<<df[i].order_year, df[i].order_month>> :
                   i \in {j \in DOMAIN df : ~isna(df[j].order_year)
                                            /\ ~isna(df[j].order_month)}}}

\* lines 198-199: the key at idxmax of order_count, the first of the
\* largest in key order; None for an empty table
busiest(groups) ==
    IF groups = {} THEN NaN
    ELSE LET top == {g \in groups : \A h \in groups : g.order_count >= h.order_count}
         IN  (CHOOSE g \in top : \A h \in top : key_ord(g.key) <= key_ord(h.key)).key

\* _calculate_temporal_metrics (min / max skip NaT)
calculate_temporal_metrics(df) ==
    LET dates == nunique(df, "order_date_time")
    IN  [date_range |->
            IF dates = {} THEN [first_order |-> NaN, last_order |-> NaN]
            ELSE [first_order |->
                     CHOOSE d \in dates : \A e \in dates : date_ord(d) <= date_ord(e),
                  last_order |->
                     CHOOSE d \in dates : \A e \in dates : date_ord(d) >= date_ord(e)],
         monthly_breakdown |-> monthly_orders(df),
         weekday_breakdown |-> orders_by(df, "order_weekday"),
         hourly_breakdown |-> orders_by(df, "order_hour"),
         busiest_hour |-> busiest(orders_by(df, "order_hour")),
         busiest_weekday |-> busiest(orders_by(df, "order_weekday"))]

\* _calculate_top_performers raises KeyError at sort_values (line 221) when
\* customer_revenue is empty, and IndexError at iloc[0] (line 215) for the
\* NaN that df['customer_id'].unique() yields for unmatched rows, since
\* df['customer_id'] == NaN selects no row.
top_performers_raises(df) ==
    \/ Len(df) = 0
    \/ \E i \in DOMAIN df : isna(df[i].customer_id)

calculate_top_performers(df) ==
    LET ids == nunique(df, "customer_id")
        rev(c) == order_revenue_sum(Rows(df, "customer_id", c))
    IN  [customer_revenue |->
            {[customer_id |-> c,
              total_revenue |-> rev(c),
              total_orders |->
                 Cardinality(nunique(Rows(df, "customer_id", c),
                                     "order_id"))] : c \in ids},
         top_customer_revenue |->
            IF ids = {} THEN 0
            ELSE rev(CHOOSE c \in ids : \A d \in ids : rev(c) >= rev(d))]

calculate_all_kpis_raises(df) ==
    regional_metrics_raises(df) \/ top_performers_raises(df)

calculate_all_kpis(df) ==
    [customer_metrics |-> calculate_customer_metrics(df),
     order_metrics |-> calculate_order_metrics(df),
     revenue_metrics |-> calculate_revenue_metrics(df),
     product_metrics |-> calculate_product_metrics(df),
     regional_metrics |-> calculate_regional_metrics(df),
     temporal_metrics |-> calculate_temporal_metrics(df),
     top_performers |-> calculate_top_performers(df)]

CalculateAllKpis ==
    /\ pc = "merged"
    /\ IF calculate_all_kpis_raises(merged)
       THEN /\ pc' = "failed_kpis"
            /\ UNCHANGED kpis
       ELSE /\ pc' = "done"
            /\ kpis' = calculate_all_kpis(merged)
    /\ UNCHANGED <<customers_csv, orders_xml, raw_customers, raw_orders,
                   customers_clean, orders_clean, orders_invalid,
                   cleaning_stats, merged, log>>
    /\ UNCHANGED aside_vars

Next ==
    \/ LoadAllData
    \/ CleanCustomers
    \/ CleanOrders
    \/ MergeCustomerOrders
    \/ CalculateAllKpis

Spec == Init /\ [][Next]_vars

\* the same run over the input files of DatedInputs
InitDates ==
    /\ \E in \in DatedInputs : customers_csv = in[1] /\ orders_xml = in[2]
    /\ InitRun
    /\ env = GoodEnv
    /\ NotImported

SpecDates == InitDates /\ [][Next]_vars

\* runs on orders files with malformed entries
InitXml ==
    /\ \E in \in XmlInputs : customers_csv = in[1] /\ orders_xml = in[2]
    /\ InitRun
    /\ env = GoodEnv
    /\ NotImported

SpecXml == InitXml /\ [][Next]_vars


-----------------------------------------------------------------------------
(* The Cleaning Engine applied to its own output: clean_customers on the   *)
(* frame clean_customers returned, clean_orders on the clean frame         *)
(* clean_orders returned, by the same DataCleaner.                         *)

\* lines 92 and 95 on a frame whose sku_count is int64 and whose
\* total_amount is float64 already: pd.to_numeric keeps the values
coerce_clean_orders(df) ==
    [i \in DOMAIN df |-> [df[i] EXCEPT !.sku_count = Fin(10 * df[i].sku_count)]]

CleanCustomersAgain ==
    /\ pc = "orders_cleaned"
    /\ pc' = "customers_recleaned"
    /\ again' = [again EXCEPT !.done = @ \cup {"customers"},
                              !.customers_clean = clean_customers_df(customers_clean)]
    /\ cleaning_stats' =
         [cleaning_stats EXCEPT !.customers = clean_customers_stats(customers_clean)]
    /\ UNCHANGED <<customers_csv, orders_xml, raw_customers, raw_orders,
                   customers_clean, orders_clean, orders_invalid, merged,
                   log, kpis>>
    /\ UNCHANGED <<save_vars, db_vars, db_save_vars, cfg_vars,
                   main_db_vars>>

CleanOrdersAgain ==
    /\ pc = "customers_recleaned"
    /\ LET c == coerce_clean_orders(orders_clean)
       IN  /\ log' = log \o warnings_of(c) \o date_warnings_of(c)
           /\ IF astype_int_raises_of(c)
              THEN /\ pc' = "failed_clean_again"
                   /\ UNCHANGED <<again, cleaning_stats>>
              ELSE /\ pc' = "orders_recleaned"
                   /\ again' = [again EXCEPT !.done = @ \cup {"orders"},
                                             !.orders_clean = clean_of(c),
                                             !.orders_invalid = invalid_of(c)]
                   /\ cleaning_stats' =
                        [cleaning_stats EXCEPT !.orders = stats_of(c)]
    /\ UNCHANGED <<customers_csv, orders_xml, raw_customers, raw_orders,
                   customers_clean, orders_clean, orders_invalid, merged,
                   kpis>>
    /\ UNCHANGED <<save_vars, db_vars, db_save_vars, cfg_vars,
                   main_db_vars>>

NextIdem ==
    \/ LoadAllData
    \/ CleanCustomers
    \/ CleanOrders
    \/ CleanCustomersAgain
    \/ CleanOrdersAgain

SpecIdem == Init /\ [][NextIdem]_vars

-----------------------------------------------------------------------------
(* Writing the output artifacts: save_results of main.py, called by main() *)
(* after calculate_all_kpis, and save_kpi_results of main_db.py.  outputs  *)
(* holds the artifacts whose write completed; the file system decides      *)
(* which writes fail.                                                      *)

Excel == "in_memory_kpis.xlsx"

\* the to_csv calls of lines 73-79 and the JSON dump of lines 90-91, in
\* order
save_results_writes(invalid_df) ==
    <<"customers_clean.csv", "orders_clean.csv">>
    \o (IF Len(invalid_df) > 0 THEN <<"orders_invalid.csv">> ELSE <<>>)
    \o <<"merged_data.csv", "kpis.json">>

SaveArtifacts ==
    {"customers_clean.csv", "orders_clean.csv", "orders_invalid.csv",
     "merged_data.csv", "kpis.json", Excel}

RECURSIVE write_all(_, _)
\* unguarded writes made one after the other: the first failing one raises
\* and none after it is made
write_all(ws, failing) ==
    IF ws = <<>> THEN [written |-> {}, raised |-> FALSE]
    ELSE IF Head(ws) \in failing THEN [written |-> {}, raised |-> TRUE]
    ELSE LET r == write_all(Tail(ws), failing)
         IN  [written |-> {Head(ws)} \cup r.written, raised |-> r.raised]

ExcelWarning == [msg |-> "Failed to save Excel file", n |-> 1]

\* mutant: the Excel block without its try / except
save_results_no_try(invalid_df, failing) ==
    LET w == write_all(save_results_writes(invalid_df) \o <<Excel>>, failing)
    IN  [outputs |-> w.written, log |-> <<>>, raised |-> w.raised]

\* save_results: the unguarded writes, then the Excel workbook inside
\* try / except Exception (lines 94-159), whose failure is logged
save_results(invalid_df, failing) ==
    LET w == write_all(save_results_writes(invalid_df), failing)
    IN  IF w.raised
        THEN [outputs |-> w.written, log |-> <<>>, raised |-> TRUE]
        ELSE IF Excel \in failing
        THEN [outputs |-> w.written, log |-> <<ExcelWarning>>, raised |-> FALSE]
        ELSE [outputs |-> w.written \cup {Excel}, log |-> <<>>, raised |-> FALSE]

\* main(), line 325; an exception of save_results reaches the handler of
\* lines 349-351, which logs and re-raises
SaveResults ==
    /\ pc = "done"
    /\ \E failing \in SUBSET SaveArtifacts :
          LET r == save_results(orders_invalid, failing)
          IN  /\ save_faults' = failing
              /\ outputs' = outputs \cup r.outputs
              /\ log' = log \o r.log
              /\ pc' = IF r.raised THEN "failed_save" ELSE "saved"
    /\ UNCHANGED <<customers_csv, orders_xml, raw_customers, raw_orders,
                   customers_clean, orders_clean, orders_invalid,
                   cleaning_stats, merged, kpis>>
    /\ UNCHANGED <<again, db_vars, db_save_vars, cfg_vars,
                   main_db_vars>>

SummaryReport == "summary_report.txt"

\* main(), line 329: generate_summary_report writes the report file (lines
\* 264-266); a failing write reaches the handler of lines 349-351
GenerateSummaryReport ==
    /\ pc = "saved"
    /\ \E fails \in BOOLEAN :
          IF fails
          THEN /\ pc' = "failed_report"
               /\ save_faults' = save_faults \cup {SummaryReport}
               /\ UNCHANGED outputs
          ELSE /\ pc' = "reported"
               /\ outputs' = outputs \cup {SummaryReport}
               /\ UNCHANGED save_faults
    /\ UNCHANGED <<customers_csv, orders_xml, raw_customers, raw_orders,
                   customers_clean, orders_clean, orders_invalid,
                   cleaning_stats, merged, log, kpis>>
    /\ UNCHANGED <<again, db_vars, db_save_vars, cfg_vars,
                   main_db_vars>>

\* the keys of the dict get_all_kpis returns, in insertion order
DbKpiNames ==
    <<"repeat_customers", "monthly_trends", "regional_revenue",
      "top_customers_30_days">>

DbExcel == "table_based_kpis.xlsx"

\* the to_csv calls of the loop of lines 136-139 (the CSV of a KPI is
\* named by the KPI), then the JSON file of
\* lines 146-147
save_kpi_results_writes(names) ==
    [i \in DOMAIN names |-> names[i]] \o <<"kpis_all.json">>

DbArtifacts ==
    {DbKpiNames[i] : i \in DOMAIN DbKpiNames} \cup {"kpis_all.json", DbExcel}

\* save_kpi_results: as save_results, the Excel workbook inside
\* try / except Exception (lines 152-175)
save_kpi_results(names, failing) ==
    LET w == write_all(save_kpi_results_writes(names), failing)
    IN  IF w.raised
        THEN [outputs |-> w.written, log |-> <<>>, raised |-> TRUE]
        ELSE IF DbExcel \in failing
        THEN [outputs |-> w.written, log |-> <<ExcelWarning>>, raised |-> FALSE]
        ELSE [outputs |-> w.written \cup {DbExcel}, log |-> <<>>, raised |-> FALSE]

\* main() of main_db.py, line 235
SaveKpiResults ==
    /\ db_save = "idle"
    /\ \E failing \in SUBSET DbArtifacts :
          LET r == save_kpi_results(DbKpiNames, failing)
          IN  /\ db_save_faults' = failing
              /\ db_outputs' = db_outputs \cup r.outputs
              /\ db_log' = db_log \o r.log
              /\ db_save' = IF r.raised THEN "raised" ELSE "returned"
    /\ UNCHANGED <<pipeline_vars, again, save_vars, db_vars, cfg_vars,
                   main_db_vars>>

\* valid and invalid line items, so that orders_invalid is empty or not
SaveOrderRows ==
    {OrderRow("O1", "m1", "2024-01-05 10:30:00", "S1", q, "500") : q \in {"2", "0"}}

SaveInputs == {<<OneCustomer, o>> : o \in SeqsUpTo(SaveOrderRows, MaxSaveOrders)}

InitSave ==
    /\ \E in \in SaveInputs : customers_csv = in[1] /\ orders_xml = in[2]
    /\ InitRun
    /\ env = GoodEnv
    /\ NotImported

NextSave ==
    \/ LoadAllData
    \/ CleanCustomers
    \/ CleanOrders
    \/ MergeCustomerOrders
    \/ CalculateAllKpis
    \/ SaveResults
    \/ GenerateSummaryReport
    \/ SaveKpiResults

SpecSave == InitSave /\ [][NextSave]_vars

-----------------------------------------------------------------------------
(* DatabaseLoader (table_based/db_loader.py) on the tables of db_schema.py. *)
(* store holds the committed rows, txn the rows as the transaction of      *)
(* self.session sees them: commit copies txn to store, rollback store to   *)
(* txn.  The surrogate key orders.id is left out of the rows.              *)

\* frames handed to load_customers: an insert, an update of C1 with a new
\* customer, one customer_id twice in a frame, a row with a null name
CustomerBatches ==
    { <<CustomerRow("C1", "Ann", "m1", "North")>>,
      <<CustomerRow("C1", "Bob", "m2", "South"),
        CustomerRow("C2", "Cid", "m1", "North")>>,
      <<CustomerRow("C2", "Dee", "m2", "East"),
        CustomerRow("C2", "Eve", "m1", "West")>>,
      <<CustomerRow("C1", NaN, "m1", "North")>> }

\* a line item of a cleaned order frame
CleanOrderRow(o, m, s, q, a) ==
    [order_id |-> o, mobile_number |-> m,
     order_date_time |-> "2024-01-05 10:30:00", sku_id |-> s,
     sku_count |-> q, total_amount |-> a]

\* frames handed to load_orders: an order of two line items, two orders
\* of different months and mobiles, and a frame whose second line item has
\* a NaN total_amount
OrderBatches ==
    { <<CleanOrderRow("O1", "m1", "S1", 2, Fin(5000)),
        CleanOrderRow("O1", "m1", "S2", 1, Fin(5000))>>,
      <<CleanOrderRow("O1", "m1", "S1", 2, Fin(5000)),
        [CleanOrderRow("O2", "m2", "S2", 1, Fin(3000))
            EXCEPT !.order_date_time = "2024-02-10 09:00:00"]>>,
      <<CleanOrderRow("O1", "m1", "S1", 2, Fin(5000)),
        CleanOrderRow("O2", "m1", "S1", 1, FNaN)>> }

\* mutant: a handler that does not roll back
session_rollback_skipped(st) == st

\* Session.rollback() and Session.commit() on the pair of table states
session_rollback(st) == [st EXCEPT !.txn = st.store]
session_commit(st) == [st EXCEPT !.store = st.txn]

\* the NOT NULL columns of Customer (db_schema.py lines 34-39)
customer_rejected(r) ==
    isna(r.customer_id) \/ isna(r.customer_name)
    \/ isna(r.mobile_number) \/ isna(r.region)

\* mutant: INSERT IGNORE, which keeps the row the table has
upsert_row_ignore(table, r, now) ==
    IF \E i \in DOMAIN table : table[i].customer_id = r.customer_id
    THEN table
    ELSE Append(table, [customer_id |-> r.customer_id,
                        customer_name |-> r.customer_name,
                        mobile_number |-> r.mobile_number,
                        region |-> r.region,
                        created_at |-> now, updated_at |-> now])

\* INSERT ... ON DUPLICATE KEY UPDATE of one row (lines 66-74): the
\* primary key customer_id decides; a new row takes the column defaults
upsert_row(table, r, now) ==
    IF \E i \in DOMAIN table : table[i].customer_id = r.customer_id
    THEN [i \in DOMAIN table |->
            IF table[i].customer_id = r.customer_id
            THEN [table[i] EXCEPT !.customer_name = r.customer_name,
                                  !.mobile_number = r.mobile_number,
                                  !.region = r.region,
                                  !.updated_at = now]
            ELSE table[i]]
    ELSE Append(table, [customer_id |-> r.customer_id,
                        customer_name |-> r.customer_name,
                        mobile_number |-> r.mobile_number,
                        region |-> r.region,
                        created_at |-> now, updated_at |-> now])

RECURSIVE upsert(_, _, _)
\* the rows of the multi-row statement, applied in order
upsert(table, rows, now) ==
    IF rows = <<>> THEN table
    ELSE upsert(upsert_row(table, Head(rows), now), Tail(rows), now)

\* load_customers: the statement is atomic; a SQLAlchemyError of execute
\* (line 77) or of commit (line 78) is handled by rollback and raise
load_customers(st, batch, now, fault) ==
    LET executed == [st EXCEPT !.txn.customers = upsert(@, batch, now)]
    IN  IF fault = "execute" \/ \E i \in DOMAIN batch : customer_rejected(batch[i])
        THEN [st |-> session_rollback(st), raised |-> "SQLAlchemyError"]
        ELSE IF fault = "commit"
        THEN [st |-> session_rollback(executed), raised |-> "SQLAlchemyError"]
        ELSE [st |-> session_commit(executed), raised |-> "none"]

DbFaults == {"none", "execute", "commit"}

LoadCustomers ==
    /\ Len(db_calls) < MaxDbCalls
    /\ \E batch \in CustomerBatches, fault \in DbFaults :
          LET r == load_customers([store |-> store, txn |-> txn], batch,
                                  utcnow, fault)
          IN  /\ store' = r.st.store
              /\ txn' = r.st.txn
              /\ db_calls' = Append(db_calls,
                    [op |-> "load_customers", batch |-> batch, fault |-> fault,
                     raised |-> r.raised, before |-> store, at |-> utcnow])
    /\ utcnow' = utcnow + 1
    /\ UNCHANGED <<pipeline_vars, again, save_vars, db_save_vars, cfg_vars,
                   main_db_vars>>

\* what the orders table refuses: a null in a NOT NULL column
\* (db_schema.py lines 67-72) and a total_amount that is no finite number,
\* which the driver cannot send
order_rejected(r) ==
    isna(r.order_id) \/ isna(r.mobile_number) \/ isna(r.order_date_time)
    \/ isna(r.sku_id) \/ r.total_amount.cls # "fin"

\* the Order object of lines 108-115 as a table row
to_order(r, now) ==
    [order_id |-> r.order_id, mobile_number |-> r.mobile_number,
     order_date_time |-> r.order_date_time, sku_id |-> r.sku_id,
     sku_count |-> r.sku_count, total_amount |-> r.total_amount,
     created_at |-> now]

\* load_orders: bulk_save_objects (line 119) inserts the rows in order; it
\* fails with a SQLAlchemyError at the first refused row, or where the
\* connection fails, after k rows at most; commit (line 120) may fail
\* too; the handler rolls back and re-raises
load_orders(st, batch, now, fault, k) ==
    LET refused == {i \in DOMAIN batch : order_rejected(batch[i])}
        first == IF refused = {} THEN Len(batch) + 1
                 ELSE CHOOSE i \in refused : \A j \in refused : i <= j
        n == IF k < first THEN k ELSE first - 1
        written(m) ==
            [st EXCEPT !.txn.orders = @ \o [i \in 1..m |-> to_order(batch[i], now)]]
    IN  IF refused # {} \/ (fault = "execute" /\ k < Len(batch))
        THEN [st |-> session_rollback(written(n)), raised |-> "SQLAlchemyError"]
        ELSE IF fault = "commit"
        THEN [st |-> session_rollback(written(Len(batch))),
              raised |-> "SQLAlchemyError"]
        ELSE [st |-> session_commit(written(Len(batch))), raised |-> "none"]

LoadOrders ==
    /\ Len(db_calls) < MaxDbCalls
    /\ \E batch \in OrderBatches, fault \in DbFaults :
          \E k \in 0..(Len(batch) - 1) :
             LET r == load_orders([store |-> store, txn |-> txn], batch,
                                  utcnow, fault, k)
             IN  /\ store' = r.st.store
                 /\ txn' = r.st.txn
                 /\ db_calls' = Append(db_calls,
                       [op |-> "load_orders", batch |-> batch, fault |-> fault,
                        raised |-> r.raised, before |-> store, at |-> utcnow])
    /\ utcnow' = utcnow + 1
    /\ UNCHANGED <<pipeline_vars, again, save_vars, db_save_vars, cfg_vars,
                   main_db_vars>>

\* clear_tables (lines 131-149): a warning, DELETE of every row of orders,
\* then of customers, commit; a SQLAlchemyError of a DELETE or of the
\* commit is handled by rollback, an error message and raise
clear_tables(st, fault) ==
    LET orders_deleted == [st EXCEPT !.txn.orders = <<>>]
        deleted == [orders_deleted EXCEPT !.txn.customers = <<>>]
        warning == [msg |-> "Clearing all table data...", level |-> "warning"]
        failed == [msg |-> "Failed to clear tables", level |-> "error"]
    IN  IF fault = "execute"
        THEN [st |-> session_rollback(orders_deleted),
              raised |-> "SQLAlchemyError", log |-> <<warning, failed>>]
        ELSE IF fault = "commit"
        THEN [st |-> session_rollback(deleted),
              raised |-> "SQLAlchemyError", log |-> <<warning, failed>>]
        ELSE [st |-> session_commit(deleted), raised |-> "none",
              log |-> <<warning,
                        [msg |-> "All table data cleared", level |-> "info"]>>]

ClearTables ==
    /\ Len(db_calls) < MaxDbCalls
    /\ \E fault \in DbFaults :
          LET r == clear_tables([store |-> store, txn |-> txn], fault)
          IN  /\ store' = r.st.store
              /\ txn' = r.st.txn
              /\ db_calls' = Append(db_calls,
                    [op |-> "clear_tables", batch |-> <<>>, fault |-> fault,
                     raised |-> r.raised, before |-> store, at |-> utcnow,
                     log |-> r.log])
    /\ UNCHANGED utcnow
    /\ UNCHANGED <<pipeline_vars, again, save_vars, db_save_vars, cfg_vars,
                   main_db_vars>>

\* a DatabaseLoader used on its own: db_config imported, and the engine
\* made by DatabaseLoader.__init__ (line 43)
InitDb ==
    /\ customers_csv = OneCustomer
    /\ orders_xml = OneOrder
    /\ InitRun
    /\ env = GoodEnv
    /\ cfg_pc = "engine"
    /\ cfg_log = <<ImportMessage>> \o get_database_engine(GoodEnv, TRUE).log
    /\ cfg_exc = <<>>

NextDb ==
    \/ LoadCustomers
    \/ LoadOrders
    \/ ClearTables

SpecDb == InitDb /\ [][NextDb]_vars

-----------------------------------------------------------------------------
(* KPICalculator of db_queries.py: the queries, evaluated on the rows of   *)
(* the tables.  A result is the set of its rows; ORDER BY leaves the order *)
(* of rows with equal keys open.                                           *)

\* MIN(order_date_time) and MIN(total_amount) of a group
min_date(D) == CHOOSE d \in D : \A e \in D : date_ord(d) <= date_ord(e)
min_amount(A) == CHOOSE a \in A : \A b \in A : a.t <= b.t

\* mutant: a subquery without GROUP BY, one row per line item
monthly_subquery_per_row(orders) ==
    {[order_id |-> orders[i].order_id, row |-> i,
      order_date_time |-> orders[i].order_date_time,
      total_amount |-> orders[i].total_amount] : i \in DOMAIN orders}

\* the subquery of get_monthly_order_trends (lines 95-103): one row per
\* order_id
monthly_subquery(orders) ==
    {[order_id |-> o,
      order_date_time |->
          min_date({orders[i].order_date_time :
                       i \in {j \in DOMAIN orders : orders[j].order_id = o}}),
      total_amount |->
          min_amount({orders[i].total_amount :
                       i \in {j \in DOMAIN orders : orders[j].order_id = o}})] :
        o \in {orders[i].order_id : i \in DOMAIN orders}}

\* df['year'].astype(int).astype(str) + '-' + month zero-filled (line 123)
year_month(y, m) == [year |-> y, month |-> IF m = "1" THEN "01" ELSE "02"]

\* get_monthly_order_trends
get_monthly_order_trends(orders) ==
    LET sub == monthly_subquery(orders)
        ym(r) == <<dt_parts(r.order_date_time).order_year,
                   dt_parts(r.order_date_time).order_month>>
        group(k) == {r \in sub : ym(r) = k}
        revenue(k) == SumSet(group(k), [r \in group(k) |-> r.total_amount.t])
    IN  {[year |-> k[1], month |-> k[2],
          order_count |-> Cardinality(group(k)),
          total_revenue |-> revenue(k),
          avg_order_value |-> Quot(revenue(k), Cardinality(group(k))),
          year_month |-> year_month(k[1], k[2])] : k \in {ym(r) : r \in sub}}

\* the subquery of get_regional_revenue (lines 147-155): one row per
\* order_id and mobile_number
regional_subquery(orders) ==
    {[order_id |-> k[1], mobile_number |-> k[2],
      total_amount |->
          min_amount({orders[i].total_amount :
                       i \in {j \in DOMAIN orders :
                                 /\ orders[j].order_id = k[1]
                                 /\ orders[j].mobile_number = k[2]}})] :
        k \in {<<orders[i].order_id, orders[i].mobile_number>> :
                  i \in DOMAIN orders}}

\* get_regional_revenue: customers joined to the subquery on
\* mobile_number, grouped by region
get_regional_revenue(customers, orders) ==
    LET sub == regional_subquery(orders)
        joined == {p \in (DOMAIN customers) \X sub :
                      customers[p[1]].mobile_number = p[2].mobile_number}
        group(g) == {p \in joined : customers[p[1]].region = g}
        revenue(g) == SumSet(group(g), [p \in group(g) |-> p[2].total_amount.t])
    IN  {[region |-> g,
          customer_count |->
              Cardinality({customers[p[1]].customer_id : p \in group(g)}),
          order_count |-> Cardinality(group(g)),
          total_revenue |-> revenue(g),
          avg_order_value |-> Quot(revenue(g), Cardinality(group(g)))] :
        g \in {customers[p[1]].region : p \in joined}}

-----------------------------------------------------------------------------
(* main() of main_db.py and load_data_to_database of db_loader.py          *)

EmptyTables == [customers |-> <<>>, orders |-> <<>>]

\* get_table_info: SELECT COUNT(*) of each table, on a connection of its
\* own, which sees the committed rows
get_table_info(tables) ==
    [customers |-> Len(tables.customers), orders |-> Len(tables.orders)]

\* where a database call of load_data_to_database fails, and how
LoadFaults ==
    {[site |-> "none", kind |-> "none"],
     [site |-> "get_database_engine", kind |-> "connect"],
     [site |-> "get_row_counts", kind |-> "execute"]}
    \cup {[site |-> st, kind |-> k] :
             st \in {"load_customers", "load_orders"},
             k \in {"execute", "commit"}}

\* load_data_to_database: files loaded and cleaned (lines 200-212), a
\* DatabaseLoader created (line 222), which makes its engine with
\* get_database_engine and opens a session, customers and orders loaded
\* (lines 225, 228), rows counted (line 231), the session closed (line
\* 237).  An exception of any step is logged and re-raised (lines
\* 241-243); the steps after it do not run.
load_data_to_database(st, csv, xml, now, fault, e) ==
    LET x == load_orders_xml(xml)
        customers == clean_customers_df(csv)
        orders == clean_orders_clean(x.df)
        engine == get_database_engine(e, fault.site # "get_database_engine")
        kind(site) == IF fault.site = site THEN fault.kind ELSE "none"
        r1 == load_customers(st, customers, now, kind("load_customers"))
        r2 == load_orders(r1.st, orders, now + 1, kind("load_orders"), 0)
        call(op, batch, r, before, at) ==
            [op |-> op, batch |-> batch, fault |-> kind(op),
             raised |-> r.raised, before |-> before, at |-> at]
        c1 == call("load_customers", customers, r1, st.store, now)
        c2 == call("load_orders", orders, r2, r1.st.store, now + 1)
    IN  IF \/ x.raised # "none"
           \/ clean_customers_raises(csv)
           \/ astype_int_raises(x.df)
        THEN [st |-> st, session |-> "none", raised |-> TRUE, calls |-> <<>>,
              engine |-> <<>>]
        ELSE IF engine.raised
        THEN [st |-> st, session |-> "none", raised |-> TRUE, calls |-> <<>>,
              engine |-> <<engine>>]
        ELSE IF r1.raised # "none"
        THEN [st |-> r1.st, session |-> "open", raised |-> TRUE,
              calls |-> <<c1>>, engine |-> <<engine>>]
        ELSE IF r2.raised # "none"
        THEN [st |-> r2.st, session |-> "open", raised |-> TRUE,
              calls |-> <<c1, c2>>, engine |-> <<engine>>]
        ELSE IF fault.site = "get_row_counts"
        THEN [st |-> r2.st, session |-> "open", raised |-> TRUE,
              calls |-> <<c1, c2>>, engine |-> <<engine>>]
        ELSE [st |-> r2.st, session |-> "closed", raised |-> FALSE,
              calls |-> <<c1, c2>>, engine |-> <<engine>>]

\* steps 1 and 2 of main(): get_database_engine (line 201), whose
\* exception ends main(); drop_tables when reset_database, create_tables,
\* and table_info = get_table_info(engine) (line 211)
SetupSchema ==
    /\ db_pc = "start"
    /\ \E connects, reset_database \in BOOLEAN :
          LET engine == get_database_engine(env, connects)
              tables == IF reset_database THEN EmptyTables ELSE store
          IN  /\ cfg_log' = cfg_log \o engine.log
              /\ cfg_exc' = engine.exc
              /\ cfg_pc' = IF engine.raised THEN "engine_failed" ELSE "engine"
              /\ IF engine.raised
                 THEN /\ db_pc' = "failed"
                      /\ UNCHANGED <<store, txn, table_info>>
                 ELSE /\ db_pc' = "schema"
                      /\ store' = tables
                      /\ txn' = tables
                      /\ table_info' = get_table_info(tables)
    /\ UNCHANGED <<utcnow, db_calls, report, session, env>>
    /\ UNCHANGED <<pipeline_vars, again, save_vars, db_save_vars>>

\* step 3 of main(), line 216
LoadDataToDatabase ==
    /\ db_pc = "schema"
    /\ \E fault \in LoadFaults :
          LET r == load_data_to_database([store |-> store, txn |-> txn],
                                         customers_csv, orders_xml, utcnow,
                                         fault, env)
          IN  /\ store' = r.st.store
              /\ txn' = r.st.txn
              /\ session' = r.session
              /\ db_calls' = db_calls \o r.calls
              /\ db_pc' = IF r.raised THEN "failed" ELSE "loaded"
              /\ IF r.engine = <<>>
                 THEN UNCHANGED <<cfg_pc, cfg_log, cfg_exc>>
                 ELSE /\ cfg_log' = cfg_log \o r.engine[1].log
                      /\ cfg_exc' = r.engine[1].exc
                      /\ cfg_pc' = IF r.engine[1].raised THEN "engine_failed"
                                                         ELSE "engine"
    /\ utcnow' = utcnow + 2
    /\ UNCHANGED <<table_info, report, env>>
    /\ UNCHANGED <<pipeline_vars, again, save_vars, db_save_vars>>

\* generate_summary_report: the two figures of lines 59-60 and the
\* monthly and regional rows of lines 84-98
generate_summary_report(kpi, counts) ==
    [customers_in_database |-> counts.customers,
     orders_in_database |-> counts.orders,
     monthly_trends |-> kpi.monthly_trends,
     regional_revenue |-> kpi.regional_revenue]

\* steps 4 and 5 of main(): get_all_kpis (line 222), save_kpi_results
\* (line 235), generate_summary_report(kpis, table_info, report_path)
\* (line 239); an exception of save_kpi_results ends main()
GenerateReports ==
    /\ db_pc = "loaded"
    /\ db_save = "idle"
    /\ \E failing \in SUBSET DbArtifacts :
          LET kpi == [monthly_trends |-> get_monthly_order_trends(store.orders),
                      regional_revenue |->
                          get_regional_revenue(store.customers, store.orders)]
              r == save_kpi_results(DbKpiNames, failing)
          IN  /\ db_save_faults' = failing
              /\ db_outputs' = db_outputs \cup r.outputs
              /\ db_log' = db_log \o r.log
              /\ db_save' = IF r.raised THEN "raised" ELSE "returned"
              /\ IF r.raised
                 THEN /\ db_pc' = "failed"
                      /\ UNCHANGED report
                 ELSE /\ db_pc' = "reported"
                      /\ report' = generate_summary_report(kpi, table_info)
    /\ UNCHANGED <<table_info, session>>
    /\ UNCHANGED <<pipeline_vars, again, save_vars, db_vars, cfg_vars>>

\* orders files of the table-based run: parseable and unparseable
\* timestamps and amounts, valid and invalid quantities
MainDbOrderRows ==
    {OrderRow("O1", "m1", d, "S1", q, a) :
        d \in {"2024-01-05 10:30:00", "not-a-date"},
        q \in {"2", "0"},
        a \in {"500", "abc"}}

InitMainDb ==
    /\ customers_csv = OneCustomer
    /\ orders_xml \in SeqsUpTo(MainDbOrderRows, MaxMainDbOrders)
    /\ InitRun
    /\ env = GoodEnv
    /\ Imported

NextMainDb ==
    \/ SetupSchema
    \/ LoadDataToDatabase
    \/ GenerateReports

SpecMainDb == InitMainDb /\ [][NextMainDb]_vars

-----------------------------------------------------------------------------
(* Positions of the run at which a result exists.                          *)

CustomersReturned ==
    pc \in {"customers_cleaned", "orders_cleaned", "failed_clean_orders",
            "merged", "done", "failed_kpis"}
OrdersReturned == pc \in {"orders_cleaned", "merged", "done", "failed_kpis"}
MergeReturned == pc \in {"merged", "done", "failed_kpis"}

Idx(df) == {df[i].idx : i \in DOMAIN df}

-----------------------------------------------------------------------------
(* C1                                                                      *)

\* the line items of order o in the clean order relation
C1_Lines(o) == {i \in DOMAIN orders_clean : orders_clean[i].order_id = o}

\* the order's total, read off its first line item that carries one
\* (tenths); an order whose every line item lacks it contributes nothing
C1_OrderTotal(o) ==
    LET I == {i \in C1_Lines(o) : orders_clean[i].total_amount.cls = "fin"}
    IN  IF I = {} THEN 0
        ELSE orders_clean[CHOOSE i \in I : \A j \in I : i <= j].total_amount.t

C1_OrderIds == {orders_clean[i].order_id : i \in DOMAIN orders_clean}

\* C1: the total_revenue of revenue_metrics over the merged view is the sum
\* over the distinct order_ids of the order's one total_amount: an order of
\* N line items (however many merged rows they become) counts once.
C1_RevenueOncePerOrder ==
    MergeReturned =>
        /\ calculate_revenue_metrics(merged).total_revenue
             = SumSet(C1_OrderIds, [o \in C1_OrderIds |-> C1_OrderTotal(o)])
        /\ pc = "done" =>
             kpis.revenue_metrics = calculate_revenue_metrics(merged)

\* an order of two line items with a total, aggregated
C1_Witness ==
    /\ pc = "done"
    /\ \E o \in C1_OrderIds :
          Cardinality(C1_Lines(o)) >= 2 /\ C1_OrderTotal(o) > 0
    /\ kpis.revenue_metrics.total_revenue > 0

-----------------------------------------------------------------------------
(* C2                                                                      *)

\* C2: when clean_orders returns, each raw line item is in exactly one of
\* clean and invalid, once, and the stats counts add up.
C2_Partition ==
    OrdersReturned =>
        /\ Idx(orders_clean) \cup Idx(orders_invalid) = Idx(raw_orders)
        /\ Idx(orders_clean) \cap Idx(orders_invalid) = {}
        /\ Len(orders_clean) + Len(orders_invalid) = Len(raw_orders)
        /\ \A df \in {orders_clean, orders_invalid} :
              \A i \in DOMAIN df :
                 LET raw == raw_orders[df[i].idx + 1]
                 IN  /\ df[i].order_id = raw.order_id
                     /\ df[i].sku_id = raw.sku_id
        /\ cleaning_stats.orders.valid_count = Len(orders_clean)
        /\ cleaning_stats.orders.invalid_count = Len(orders_invalid)
        /\ cleaning_stats.orders.original_count = Len(raw_orders)
        /\ cleaning_stats.orders.valid_count + cleaning_stats.orders.invalid_count
             = cleaning_stats.orders.original_count

\* a returned partition with a clean row and a row that matches two
\* predicates (a non-positive sku_count and a missing key field)
C2_Witness ==
    /\ OrdersReturned
    /\ Len(orders_clean) >= 1
    /\ \E i \in DOMAIN orders_invalid :
          /\ invalid_negative_count(orders_invalid[i])
          /\ invalid_missing(orders_invalid[i])

-----------------------------------------------------------------------------
(* C3                                                                      *)

\* C3: every record of the returned clean set has sku_count > 0, a
\* total_amount that is not negative and its three key fields.
C3_CleanRowsValid ==
    OrdersReturned =>
        \A i \in DOMAIN orders_clean :
            /\ orders_clean[i].sku_count > 0
            /\ ~flt0(orders_clean[i].total_amount)
            /\ ~invalid_missing(orders_clean[i])

-----------------------------------------------------------------------------
(* C4                                                                      *)

\* C4: the cleaned customers have pairwise distinct customer_ids and no
\* missing customer_id or mobile_number.
C4_CustomersKeyed ==
    CustomersReturned =>
        /\ \A i, j \in DOMAIN customers_clean :
              customers_clean[i].customer_id = customers_clean[j].customer_id
                 => i = j
        /\ \A i \in DOMAIN customers_clean :
              /\ ~isna(customers_clean[i].customer_id)
              /\ ~isna(customers_clean[i].mobile_number)

\* a raw table with a repeated customer_id and a row lacking its mobile,
\* of which a row survives
C4_Witness ==
    /\ CustomersReturned
    /\ \E i, j \in DOMAIN raw_customers :
          i # j /\ raw_customers[i].customer_id = raw_customers[j].customer_id
    /\ \E i \in DOMAIN raw_customers : isna(raw_customers[i].mobile_number)
    /\ Len(customers_clean) >= 1

-----------------------------------------------------------------------------
(* C5                                                                      *)

\* C5: no two cleaned customers carry the same normalized mobile_number.
C5_MobileUnique ==
    CustomersReturned =>
        \A i, j \in DOMAIN customers_clean :
            customers_clean[i].mobile_number = customers_clean[j].mobile_number
               => i = j


-----------------------------------------------------------------------------
(* C6                                                                      *)

\* the clean line items of customer c: those whose mobile_number is the
\* mobile_number of the clean customer record c
C6_Lines(c) ==
    {i \in DOMAIN orders_clean :
        \E k \in DOMAIN customers_clean :
           /\ customers_clean[k].customer_id = c
           /\ customers_clean[k].mobile_number = orders_clean[i].mobile_number}

C6_Orders(c) == {orders_clean[i].order_id : i \in C6_Lines(c)}

\* the total of order o as customer c's line items carry it (tenths)
C6_OrderTotal(c, o) ==
    LET I == {i \in C6_Lines(c) :
                 /\ orders_clean[i].order_id = o
                 /\ orders_clean[i].total_amount.cls = "fin"}
    IN  IF I = {} THEN 0
        ELSE orders_clean[CHOOSE i \in I : \A j \in I : i <= j].total_amount.t

C6_Revenue(c) ==
    SumSet(C6_Orders(c), [o \in C6_Orders(c) |-> C6_OrderTotal(c, o)])

\* the merged rows of customer c are two line items of O1 (500 each) and
\* one of O2 (300)
C6_Scenario(c) ==
    LET g == Rows(merged, "customer_id", c)
    IN  /\ Len(g) = 3
        /\ \A i \in 1..3 :
              /\ g[i].order_id = IF i = 3 THEN "O2" ELSE "O1"
              /\ g[i].total_amount = Fin(IF i = 3 THEN 3000 ELSE 5000)

\* C6: each record of customer_details counts the customer's distinct
\* orders, sums each of those orders' totals once, counts the customer's
\* line items without deduplication, and divides revenue by orders; the
\* scenario gives 2 orders, 800, 3 items, 400.
C6_CustomerDetails ==
    pc = "done" =>
        LET details == kpis.customer_metrics.customer_details
        IN  /\ {d.customer_id : d \in details}
                 = {c \in {customers_clean[k].customer_id :
                              k \in DOMAIN customers_clean} : C6_Lines(c) # {}}
            /\ \A d \in details :
                  /\ d.total_orders = Cardinality(C6_Orders(d.customer_id))
                  /\ d.total_revenue = C6_Revenue(d.customer_id)
                  /\ d.total_items = Cardinality(C6_Lines(d.customer_id))
                  /\ d.avg_order_value.cls = "fin"
                  /\ d.avg_order_value.num = d.total_revenue
                  /\ d.avg_order_value.den = d.total_orders
                  /\ C6_Scenario(d.customer_id) =>
                        /\ d.total_orders = 2
                        /\ d.total_revenue = 8000
                        /\ d.total_items = 3
                        /\ d.avg_order_value.num = 4000 * d.avg_order_value.den
            /\ \A d1, d2 \in details :
                  d1.customer_id = d2.customer_id => d1 = d2

-----------------------------------------------------------------------------
(* C7                                                                      *)

KpisAttempted == pc \in {"done", "failed_kpis"}

\* C7: on an empty merged view calculate_all_kpis returns, and its groups
\* hold empty or zero values.
C7_EmptyViewReturns ==
    (KpisAttempted /\ Len(merged) = 0) =>
        /\ pc = "done"
        /\ kpis.revenue_metrics.total_revenue = 0
        /\ kpis.revenue_metrics.total_items_sold = 0
        /\ kpis.customer_metrics.customer_details = {}
        /\ kpis.customer_metrics.total_customers = 0
        /\ kpis.order_metrics.total_orders = 0
        /\ kpis.product_metrics.sku_performance = {}
        /\ kpis.regional_metrics.regional_breakdown = {}
        /\ kpis.temporal_metrics.date_range.first_order = NaN
        /\ kpis.top_performers.top_customer_revenue = 0

-----------------------------------------------------------------------------
(* C8                                                                      *)

\* merged row m carries the order fields of clean line item o
C8_FromLine(m, o) ==
    /\ m.order_id = o.order_id
    /\ m.mobile_number = o.mobile_number
    /\ m.sku_id = o.sku_id
    /\ m.sku_count = o.sku_count
    /\ m.total_amount = o.total_amount
    /\ m.order_date_time = o.order_date_time

C8_HasCustomer(o) ==
    \E k \in DOMAIN customers_clean :
       customers_clean[k].mobile_number = o.mobile_number

C8_Unmatched ==
    Cardinality({i \in DOMAIN orders_clean : ~C8_HasCustomer(orders_clean[i])})

\* C8: the merge returns for every pair of clean relations; the merged
\* view has at least as many rows as the clean orders and holds every clean
\* line item; a line item without customer appears once, with null customer
\* fields; a matched one appears with its customer's fields; the number of
\* unmatched line items is the count the warning logs.
C8_LeftJoin ==
    /\ pc = "orders_cleaned" => ENABLED MergeCustomerOrders
    /\ MergeReturned =>
          /\ Len(merged) >= Len(orders_clean)
          /\ \A i \in DOMAIN orders_clean :
                LET o == orders_clean[i]
                    rows == {j \in DOMAIN merged : C8_FromLine(merged[j], o)}
                IN  /\ rows # {}
                    /\ ~C8_HasCustomer(o) =>
                          \A j \in rows :
                             /\ isna(merged[j].customer_id)
                             /\ isna(merged[j].customer_name)
                             /\ isna(merged[j].region)
                    /\ C8_HasCustomer(o) =>
                          \A j \in rows :
                             \E k \in DOMAIN customers_clean :
                                /\ customers_clean[k].mobile_number = o.mobile_number
                                /\ merged[j].customer_id = customers_clean[k].customer_id
                                /\ merged[j].region = customers_clean[k].region
          /\ \A j \in DOMAIN merged :
                \E i \in DOMAIN orders_clean : C8_FromLine(merged[j], orders_clean[i])
          /\ unmatched(merged) = C8_Unmatched
          /\ C8_Unmatched > 0 =>
                \E l \in DOMAIN log :
                   log[l] = [msg |-> "orders without matching customers",
                             n |-> C8_Unmatched]
          /\ (Len(customers_clean) = 0 /\ Len(orders_clean) = 1) =>
                /\ Len(merged) = 1
                /\ isna(merged[1].customer_id)
                /\ unmatched(merged) = 1

\* no customer and one valid line item, merged
C8_Witness ==
    /\ MergeReturned
    /\ Len(customers_clean) = 0
    /\ Len(orders_clean) = 1
    /\ Len(merged) = 1
    /\ \E l \in DOMAIN log : log[l].n = 1

-----------------------------------------------------------------------------
(* C9                                                                      *)

\* raw line item: its coerced sku_count is <= 0 or its coerced total_amount
\* is < 0
C9_Offending(raw) ==
    \/ fle0(to_numeric(raw.sku_count))
    \/ flt0(to_numeric(raw.total_amount))

\* C9: when clean_orders returns, each offending line item is in invalid
\* with its coerced values unchanged and not in clean; the merged view
\* holds clean line items only; the two counters count the offending rows.
\* In no state is an offending line item in the clean set.
C9_OffendingRouted ==
    /\ \A i \in DOMAIN orders_clean :
          ~C9_Offending(raw_orders[orders_clean[i].idx + 1])
    /\ \A j \in DOMAIN merged :
          /\ ~flt0(merged[j].total_amount)
          /\ \E i \in DOMAIN orders_clean : C8_FromLine(merged[j], orders_clean[i])
    /\ OrdersReturned =>
          /\ \A i \in DOMAIN raw_orders :
                C9_Offending(raw_orders[i]) =>
                   /\ raw_orders[i].idx \notin Idx(orders_clean)
                   /\ \E k \in DOMAIN orders_invalid :
                         /\ orders_invalid[k].idx = raw_orders[i].idx
                         /\ orders_invalid[k].sku_count
                              = to_numeric(raw_orders[i].sku_count)
                         /\ orders_invalid[k].total_amount
                              = to_numeric(raw_orders[i].total_amount)
          /\ cleaning_stats.orders.rows_with_negative_count
               = Cardinality({i \in DOMAIN raw_orders :
                                 fle0(to_numeric(raw_orders[i].sku_count))})
          /\ cleaning_stats.orders.rows_with_negative_amount
               = Cardinality({i \in DOMAIN raw_orders :
                                 flt0(to_numeric(raw_orders[i].total_amount))})

\* a line item of sku_count -2 and one of total_amount -100 (its sku_count
\* valid), both in invalid with these values and both counted
C9_Witness ==
    /\ OrdersReturned
    /\ \E k \in DOMAIN orders_invalid :
          /\ orders_invalid[k].total_amount = Fin(-1000)
          /\ orders_invalid[k].sku_count = Fin(20)
    /\ \E k \in DOMAIN orders_invalid : orders_invalid[k].sku_count = Fin(-20)
    /\ cleaning_stats.orders.rows_with_negative_count >= 1
    /\ cleaning_stats.orders.rows_with_negative_amount >= 1

-----------------------------------------------------------------------------
(* C10                                                                     *)

\* raw line item: its sku_count or its total_amount does not coerce
C10_Uncoercible(raw) ==
    \/ fisna(to_numeric(raw.sku_count))
    \/ fisna(to_numeric(raw.total_amount))

\* C10: a line item whose sku_count or total_amount fails coercion is
\* routed to invalid and not to clean.
C10_UncoercibleRouted ==
    OrdersReturned =>
        \A i \in DOMAIN raw_orders :
            C10_Uncoercible(raw_orders[i]) =>
               /\ raw_orders[i].idx \in Idx(orders_invalid)
               /\ raw_orders[i].idx \notin Idx(orders_clean)

-----------------------------------------------------------------------------
(* C11                                                                     *)

Records(df) == {df[i] : i \in DOMAIN df}

\* the customer half of C11: the second clean_customers returns the records
\* of the first
C11_CustomersSame ==
    "customers" \in again.done =>
        /\ Records(again.customers_clean) = Records(customers_clean)
        /\ Len(again.customers_clean) = Len(customers_clean)

\* C11: clean_customers applied to its own output returns the same records,
\* and clean_orders applied to its own clean output returns that clean set
\* and an empty invalid set.
C11_Idempotent ==
    /\ C11_CustomersSame
    /\ "orders" \in again.done =>
          /\ Records(again.orders_clean) = Records(orders_clean)
          /\ Len(again.orders_clean) = Len(orders_clean)
          /\ again.orders_invalid = <<>>

-----------------------------------------------------------------------------
(* C12                                                                     *)

\* the raw line items that pass the four predicates and whose timestamp
\* does not parse
C12_Undated ==
    {i \in DOMAIN raw_orders :
        /\ ~invalid_mask(coerce_orders(raw_orders)[i])
        /\ raw_orders[i].order_date_time \notin GoodDates}

\* the clean line items with a timestamp
C12_Dated == {j \in DOMAIN orders_clean : ~isna(orders_clean[j].order_date_time)}

\* the distinct orders among the dated clean line items whose column col
\* is k
C12_Orders(col, k) ==
    {orders_clean[j].order_id : j \in {n \in C12_Dated : orders_clean[n][col] = k}}

\* C12: a valid line item whose timestamp does not parse is kept with a
\* null timestamp and counted in rows_with_invalid_dates; the temporal
\* buckets and the date range are those of the dated line items alone,
\* and are empty / null when no line item is dated.
C12_UnparseableDates ==
    /\ OrdersReturned =>
          /\ \A i \in C12_Undated :
                \E j \in DOMAIN orders_clean :
                   /\ orders_clean[j].idx = raw_orders[i].idx
                   /\ isna(orders_clean[j].order_date_time)
          /\ cleaning_stats.orders.rows_with_invalid_dates
               = Cardinality(C12_Undated)
    /\ pc = "done" =>
          LET tm == kpis.temporal_metrics
              bucket(groups, col) ==
                 /\ {g.key : g \in groups}
                      = {orders_clean[j][col] : j \in C12_Dated}
                 /\ \A g \in groups :
                       g.order_count = Cardinality(C12_Orders(col, g.key))
          IN  /\ bucket(tm.hourly_breakdown, "order_hour")
              /\ bucket(tm.weekday_breakdown, "order_weekday")
              /\ \A g \in tm.monthly_breakdown :
                    /\ ~isna(g.year) /\ ~isna(g.month)
                    /\ g.order_count
                         = Cardinality(C12_Orders("order_year", g.year)
                                       \cap C12_Orders("order_month", g.month))
              /\ {<<g.year, g.month>> : g \in tm.monthly_breakdown}
                   = {<<orders_clean[j].order_year, orders_clean[j].order_month>> :
                         j \in C12_Dated}
              /\ IF C12_Dated = {}
                 THEN /\ isna(tm.date_range.first_order)
                      /\ isna(tm.date_range.last_order)
                      /\ isna(tm.busiest_hour)
                      /\ isna(tm.busiest_weekday)
                      /\ tm.hourly_breakdown = {}
                      /\ tm.weekday_breakdown = {}
                      /\ tm.monthly_breakdown = {}
                 ELSE /\ \E j \in C12_Dated :
                            tm.date_range.first_order = orders_clean[j].order_date_time
                      /\ \E j \in C12_Dated :
                            tm.date_range.last_order = orders_clean[j].order_date_time
                      /\ \A j \in C12_Dated :
                            /\ date_ord(tm.date_range.first_order)
                                 <= date_ord(orders_clean[j].order_date_time)
                            /\ date_ord(tm.date_range.last_order)
                                 >= date_ord(orders_clean[j].order_date_time)

\* KPIs computed over a dated line item and one whose timestamp did not
\* parse
C12_Witness ==
    /\ pc = "done"
    /\ C12_Dated # {}
    /\ C12_Undated # {}
    /\ \E j \in DOMAIN orders_clean : isna(orders_clean[j].order_date_time)
    /\ cleaning_stats.orders.rows_with_invalid_dates >= 1

\* KPIs computed when no line item has a timestamp
C12_WitnessAllUnparseable ==
    /\ pc = "done"
    /\ Len(orders_clean) >= 2
    /\ C12_Dated = {}
    /\ isna(kpis.temporal_metrics.busiest_hour)

-----------------------------------------------------------------------------
(* C13                                                                     *)

\* the distinct SKUs among the clean line items of order o
C13_Skus(o) == {orders_clean[i].sku_id : i \in C1_Lines(o)}

\* C13: total_orders is the number of distinct order_ids, and
\* avg_items_per_order is the mean over them of the order's number of
\* distinct SKUs.
C13_UniqueSkusPerOrder ==
    pc = "done" =>
        LET om == kpis.order_metrics
            total == SumSet(C1_OrderIds,
                            [o \in C1_OrderIds |-> Cardinality(C13_Skus(o))])
        IN  /\ om.total_orders = Cardinality(C1_OrderIds)
            /\ om.avg_items_per_order.cls = "fin"
            /\ om.avg_items_per_order.num * Cardinality(C1_OrderIds)
                 = total * om.avg_items_per_order.den

-----------------------------------------------------------------------------
(* C14                                                                     *)

\* the quantity of all clean line items, each once
C14_Quantity == SumSeq([i \in DOMAIN orders_clean |-> orders_clean[i].sku_count])

\* C14: after clean, merge and aggregate, total_items_sold is the sum of
\* sku_count over the clean line items, each counted once, and
\* avg_revenue_per_item is total_revenue / total_items_sold, 0 for no item.
C14_TotalItemsSold ==
    pc = "done" =>
        LET rm == kpis.revenue_metrics
        IN  /\ rm.total_items_sold = C14_Quantity
            /\ rm.avg_revenue_per_item.cls = "fin"
            /\ IF rm.total_items_sold = 0
               THEN rm.avg_revenue_per_item.num = 0
               ELSE rm.avg_revenue_per_item.num * rm.total_items_sold
                      = rm.total_revenue * rm.avg_revenue_per_item.den

-----------------------------------------------------------------------------
(* C15                                                                     *)

C15_Reasons == {"sku_count", "negative_count", "negative_amount", "missing"}

\* the number of input rows that match the predicate of reason r
C15_Count(r) ==
    LET c == coerce_orders(raw_orders)
    IN  CASE r = "sku_count" -> CountTrue(mask_sku_count(c))
          [] r = "negative_count" -> CountTrue(mask_negative_count(c))
          [] r = "negative_amount" -> CountTrue(mask_negative_amount(c))
          [] r = "missing" -> CountTrue(mask_missing(c))

\* the counters of the order stats record other than the three totals
\* and the count of unparseable dates, which is no rejection
C15_Counters ==
    DOMAIN get_cleaning_summary.orders
    \ {"original_count", "valid_count", "invalid_count", "rows_with_invalid_dates"}

\* C15: the order stats record holds, for each of the four rejection
\* reasons, a counter that equals the number of input rows matching the
\* reason's predicate.
C15_ReasonCounters ==
    OrdersReturned =>
        \A r \in C15_Reasons :
            \E k \in C15_Counters :
                get_cleaning_summary.orders[k] = C15_Count(r)

-----------------------------------------------------------------------------
(* C16                                                                     *)

\* the stats record of a clean_customers call that changed nothing
C16_NothingChanged ==
    [original_count |-> Len(raw_customers),
     final_count |-> Len(raw_customers),
     duplicates_removed |-> 0,
     rows_dropped |-> 0]

\* C16: when clean_customers removed a record or altered a field of a kept
\* record, at least one counter of its stats record differs from the
\* record of a call that changed nothing.
C16_NoSilentChange ==
    CustomersReturned =>
        (customers_clean # raw_customers
            => get_cleaning_summary.customers # C16_NothingChanged)

-----------------------------------------------------------------------------
(* C17                                                                     *)

SaveAttempted == pc \in {"saved", "failed_save"}
DbSaveAttempted == db_save \in {"returned", "raised"}

Elems(ws) == {ws[i] : i \in DOMAIN ws}

\* the CSV and JSON artifacts each function writes before the workbook
C17_Before == Elems(save_results_writes(orders_invalid))
C17_DbBefore == Elems(save_kpi_results_writes(DbKpiNames))

\* C17: when the write of the Excel workbook fails, save_results and
\* save_kpi_results return normally, the CSV and JSON artifacts written
\* before it remain, and a warning is logged.
C17_ExcelFailureTolerated ==
    /\ (SaveAttempted /\ Excel \in save_faults /\ C17_Before \cap save_faults = {})
          => /\ pc = "saved"
             /\ C17_Before \subseteq outputs
             /\ \E i \in DOMAIN log : log[i] = ExcelWarning
    /\ (DbSaveAttempted /\ DbExcel \in db_save_faults
                        /\ C17_DbBefore \cap db_save_faults = {})
          => /\ db_save = "returned"
             /\ C17_DbBefore \subseteq db_outputs
             /\ \E i \in DOMAIN db_log : db_log[i] = ExcelWarning

\* both functions have run with a failing workbook write, invalid orders
\* among the CSV artifacts
C17_Witness ==
    /\ pc = "saved"
    /\ save_faults = {Excel}
    /\ "orders_invalid.csv" \in outputs
    /\ db_save = "returned"
    /\ db_save_faults = {DbExcel}

-----------------------------------------------------------------------------
(* C18                                                                     *)

\* C18: when the write of one artifact fails, whichever it is, every
\* other artifact of the function is written.
C18_FailuresIsolated ==
    /\ SaveAttempted =>
          \A a \in C17_Before \cup {Excel} :
             save_faults = {a} => ((C17_Before \cup {Excel}) \ {a}) \subseteq outputs
    /\ DbSaveAttempted =>
          \A a \in C17_DbBefore \cup {DbExcel} :
             db_save_faults = {a}
                => ((C17_DbBefore \cup {DbExcel}) \ {a}) \subseteq db_outputs

-----------------------------------------------------------------------------
(* C19                                                                     *)

LastCall == db_calls[Len(db_calls)]

\* a failure occurred in call c: the connection failed, or the table
\* refused a row of the batch
C19_Failed(c) ==
    \/ c.fault # "none"
    \/ c.op = "load_customers"
         /\ \E i \in DOMAIN c.batch : customer_rejected(c.batch[i])
    \/ c.op = "load_orders"
         /\ \E i \in DOMAIN c.batch : order_rejected(c.batch[i])

\* C19: after a load_customers or load_orders call in which a failure
\* occurred, the tables and the session are as before the call, no row of
\* the batch in them, and the exception was raised to the caller.
C19_AllOrNothing ==
    (db_calls # <<>> /\ C19_Failed(LastCall)) =>
        /\ store = LastCall.before
        /\ txn = LastCall.before
        /\ LastCall.raised = "SQLAlchemyError"

\* a load_orders call on a table with rows, failing at its second row
C19_Witness ==
    /\ Len(db_calls) = 2
    /\ LastCall.op = "load_orders"
    /\ LastCall.raised # "none"
    /\ Len(LastCall.batch) = 2
    /\ order_rejected(LastCall.batch[2])
    /\ LastCall.before.orders # <<>>
    /\ store.orders = LastCall.before.orders

-----------------------------------------------------------------------------
(* C20                                                                     *)

\* the calls since the tables were last cleared
C20_SinceClear ==
    {i \in DOMAIN db_calls :
        \A j \in DOMAIN db_calls :
           (db_calls[j].op = "clear_tables" /\ db_calls[j].raised = "none")
              => j < i}

\* the successful load_customers calls since the tables were last cleared
C20_Loads ==
    {i \in C20_SinceClear :
        db_calls[i].op = "load_customers" /\ db_calls[i].raised = "none"}

C20_Has(i, c) == \E j \in DOMAIN db_calls[i].batch : db_calls[i].batch[j].customer_id = c

\* the most recent successful load that contained customer_id c, and the
\* last row of its batch for c
C20_LastLoad(c) ==
    CHOOSE i \in C20_Loads :
        C20_Has(i, c) /\ \A j \in C20_Loads : C20_Has(j, c) => j <= i
C20_LastRow(c) ==
    LET b == db_calls[C20_LastLoad(c)].batch
        J == {j \in DOMAIN b : b[j].customer_id = c}
    IN  b[CHOOSE j \in J : \A n \in J : n <= j]

\* C20: the customers table has one row per customer_id loaded since the
\* tables were last cleared, and
\* the row has the name, mobile and region of the most recent successful
\* load that contained the customer_id, and that load's time as updated_at.
C20_UpsertLatestWins ==
    LET t == store.customers
        ids == {c \in {"C1", "C2"} : \E i \in C20_Loads : C20_Has(i, c)}
    IN  /\ \A p, q \in DOMAIN t : t[p].customer_id = t[q].customer_id => p = q
        /\ {t[p].customer_id : p \in DOMAIN t} = ids
        /\ \A p \in DOMAIN t :
              LET c == t[p].customer_id
              IN  /\ t[p].customer_name = C20_LastRow(c).customer_name
                  /\ t[p].mobile_number = C20_LastRow(c).mobile_number
                  /\ t[p].region = C20_LastRow(c).region
                  /\ t[p].updated_at = db_calls[C20_LastLoad(c)].at

\* C1 loaded, then loaded again with other values
C20_Witness ==
    /\ Cardinality(C20_Loads) = 2
    /\ \A i \in C20_Loads : C20_Has(i, "C1")
    /\ \E p \in DOMAIN store.customers :
          /\ store.customers[p].customer_id = "C1"
          /\ store.customers[p].customer_name = "Bob"
          /\ store.customers[p].updated_at > store.customers[p].created_at

-----------------------------------------------------------------------------
(* C21                                                                     *)

C21_Fields ==
    {"order_id", "mobile_number", "order_date_time", "sku_id", "sku_count",
     "total_amount"}

\* the positions of the entries that have all six child elements
C21_WellFormed ==
    {i \in DOMAIN orders_xml : \A f \in C21_Fields : orders_xml[i][f] # Absent}

\* C21: load_orders_xml does not raise, returns the entries that have all
\* six child elements, in source order, and logs one warning for each
\* entry it skips; so too when every entry is malformed or there is none.
C21_MalformedSkipped ==
    pc # "start" =>
        /\ pc # "failed_load"
        /\ Len(raw_orders) = Cardinality(C21_WellFormed)
        /\ \A r \in DOMAIN raw_orders :
              \E i \in C21_WellFormed :
                 /\ Cardinality({j \in C21_WellFormed : j < i}) = r - 1
                 /\ \A f \in C21_Fields : raw_orders[r][f] = orders_xml[i][f]
        /\ Cardinality({l \in DOMAIN log : log[l] = SkipWarning})
              = Len(orders_xml) - Cardinality(C21_WellFormed)

-----------------------------------------------------------------------------
(* C22                                                                     *)

\* text t occurs in message m
C22_Occurs(t, m) ==
    \E i \in 1..(Len(m) - Len(t) + 1) : SubSeq(m, i, i + Len(t) - 1) = t

\* the password has some text other than blanks
C22_HasPassword ==
    env["DB_PASSWORD"].set /\ strip(env["DB_PASSWORD"].text) # <<>>

\* C22: the value of DB_PASSWORD occurs in no message logged, and in no
\* message of an exception raised, by DatabaseConfig or
\* get_database_engine, whatever the environment variables hold.
C22_PasswordNeverLogged ==
    C22_HasPassword =>
        /\ ~C22_Occurs(env["DB_PASSWORD"].text, cfg_exc)
        /\ \A l \in DOMAIN cfg_log :
              ~C22_Occurs(env["DB_PASSWORD"].text, cfg_log[l])

-----------------------------------------------------------------------------
(* C23                                                                     *)

C23_OrderIds == {store.orders[i].order_id : i \in DOMAIN store.orders}

\* the total_amount of order o in the orders table
C23_Amount(o) ==
    min_amount({store.orders[i].total_amount :
                   i \in {j \in DOMAIN store.orders :
                             store.orders[j].order_id = o}}).t

\* C23: summed over the regions of get_regional_revenue, order_count is at
\* most the number of distinct order_ids of the orders table and
\* total_revenue at most the sum of their total_amounts: no order counts
\* twice.
C23_RegionalOncePerOrder ==
    LET rr == get_regional_revenue(store.customers, store.orders)
    IN  /\ SumSet(rr, [r \in rr |-> r.order_count]) <= Cardinality(C23_OrderIds)
        /\ SumSet(rr, [r \in rr |-> r.total_revenue])
              <= SumSet(C23_OrderIds, [o \in C23_OrderIds |-> C23_Amount(o)])

-----------------------------------------------------------------------------
(* C28                                                                     *)

\* the figures of a bucket that the claim compares
C28_Monthly(orders) ==
    {[year_month |-> r.year_month, order_count |-> r.order_count,
      total_revenue |-> r.total_revenue] : r \in get_monthly_order_trends(orders)}
C28_Regional(customers, orders) ==
    {[region |-> r.region, order_count |-> r.order_count,
      total_revenue |-> r.total_revenue] :
        r \in get_regional_revenue(customers, orders)}

\* the last call loaded, with success, a frame of orders that an earlier
\* successful call had loaded, and the tables were not cleared since
C28_LoadedAgain ==
    /\ db_calls # <<>>
    /\ LastCall.op = "load_orders" /\ LastCall.raised = "none"
    /\ \E i \in C20_SinceClear \ {Len(db_calls)} :
          /\ db_calls[i].op = "load_orders" /\ db_calls[i].raised = "none"
          /\ db_calls[i].batch = LastCall.batch

\* C28: loading the same orders once more changes neither order_count nor
\* total_revenue of any month of get_monthly_order_trends or of any region
\* of get_regional_revenue.
C28_ReloadHarmless ==
    C28_LoadedAgain =>
        /\ C28_Monthly(store.orders) = C28_Monthly(LastCall.before.orders)
        /\ C28_Regional(store.customers, store.orders)
              = C28_Regional(LastCall.before.customers, LastCall.before.orders)

\* customers, then the same two orders loaded twice: rows doubled, two
\* months and a region with revenue
C28_Witness ==
    /\ C28_LoadedAgain
    /\ Len(store.orders) = 2 * Len(LastCall.batch)
    /\ Cardinality(C28_Monthly(store.orders)) = 2
    /\ \E r \in C28_Regional(store.customers, store.orders) : r.total_revenue > 0

-----------------------------------------------------------------------------
(* C24                                                                     *)

\* C24: calculate_all_kpis returns for every merged view that has rows,
\* line items without a customer among them.
C24_KpisOnUnmatched ==
    (KpisAttempted /\ Len(merged) > 0) => pc = "done"

-----------------------------------------------------------------------------
(* C25                                                                     *)

\* C25: the total_revenue figures of regional_breakdown add up to
\* revenue_metrics.total_revenue.
C25_RevenueConserved ==
    pc = "done" =>
        LET rb == kpis.regional_metrics.regional_breakdown
        IN  SumSet(rb, [r \in rb |-> r.total_revenue])
               = kpis.revenue_metrics.total_revenue

-----------------------------------------------------------------------------
(* C26                                                                     *)

\* C26: a customer_id that some raw row carries together with a
\* mobile_number is in the cleaned customer set.
C26_NoCustomerLost ==
    CustomersReturned =>
        \A i \in DOMAIN raw_customers :
            (~isna(raw_customers[i].customer_id)
             /\ ~isna(raw_customers[i].mobile_number)) =>
                \E j \in DOMAIN customers_clean :
                    customers_clean[j].customer_id = raw_customers[i].customer_id

-----------------------------------------------------------------------------
(* C27                                                                     *)

\* the six columns of a line item are present
C27_Complete(r) ==
    /\ ~isna(r.order_id) /\ ~isna(r.mobile_number) /\ ~isna(r.order_date_time)
    /\ ~isna(r.sku_id) /\ r.sku_count \in Int /\ r.total_amount.cls # "nan"

\* C27: every line item that load_data_to_database hands from
\* clean_orders to load_orders has its six columns present, and
\* load_orders fails on it only when the database connection does.
C27_CleanOrdersLoadable ==
    \A i \in DOMAIN db_calls :
        (db_calls[i].op = "load_orders" /\ db_calls[i].fault = "none") =>
            /\ \A j \in DOMAIN db_calls[i].batch :
                  C27_Complete(db_calls[i].batch[j])
            /\ db_calls[i].raised = "none"

-----------------------------------------------------------------------------
(* C29                                                                     *)

\* C29: the figures "Customers in database" and "Orders in database" of
\* the summary report are the row counts of the tables when the report is
\* written, after the load of the same run.
C29_ReportCountsCurrent ==
    db_pc = "reported" =>
        /\ report.customers_in_database = Len(store.customers)
        /\ report.orders_in_database = Len(store.orders)

-----------------------------------------------------------------------------
(* C30                                                                     *)

\* C30: when load_data_to_database has returned or raised, the session it
\* opened has been closed.
C30_SessionClosed ==
    (db_pc \in {"loaded", "failed", "reported"} /\ session # "none") =>
        session = "closed"

====
